---- MODULE Spec2Model ----
(***************************************************************************)
(* A model of the Vulkan profiler layer's capture and aggregation engine:  *)
(* DeviceProfiler (VkProfilerEXT.cpp), the intercepted command-buffer      *)
(* entry points (VkCommandBuffer_functions.cpp), and the two collaborators *)
(* whose code is not part of the sources at hand, the command-buffer       *)
(* recorder (ProfilerCommandBuffer) and the data aggregator                *)
(* (DeviceProfilerDataAggregator), which are modelled from the design      *)
(* document.                                                               *)
(***************************************************************************)
EXTENDS Integers, Sequences, FiniteSets, TLC

(***************************************************************************)
(* Bounds of the model.                                                    *)
(***************************************************************************)
MaxRegions == 5      \* regions one recording may hold (root included)
MaxFrames == 2       \* FinishFrame calls per run
MaxSubmits == 2      \* vkQueueSubmit calls per run
MaxAllocs == 1       \* vkAllocateMemory calls per run
MaxReads == 1        \* GetData calls per run
MaxRecordings == 2   \* vkBeginCommandBuffer calls per run
MaxCbAllocs == 2     \* vkAllocateCommandBuffers calls per run
MaxAppends == 4      \* snapshots appended to the aggregator directly
MaxDuration == 2     \* longest pipeline region of such a snapshot, in ticks
MaxAttachments == 2  \* attachments of a render pass
MaxConfigCalls == 2  \* SetMode and SetSyncMode calls per run
MaxInits == 2  \* Initialize calls per run
MaxFrees == 2  \* vkFreeCommandBuffers calls with handles of any kind per run
MaxMemoryCalls == 3  \* vkAllocateMemory calls per run of the memory workload

(***************************************************************************)
(* Handles and other value sets.                                           *)
(***************************************************************************)
Threads == {"t1", "t2", "t3"}
NoThread == "none"
Handles == {"cb1", "cb2"}
Pools == {"poolA", "poolB"}
PipelineHandles == {"P1", "P2"}
RenderPassHandles == {"RP1"}
MemoryHandles == {"m1", "m2"}
Queue == "queue"

VK_NULL_HANDLE == "null"
VK_PROFILER_SYNC_MODE_PRESENT_EXT == "present"
VK_PROFILER_SYNC_MODE_SUBMIT_EXT == "submit"
\* A value of VkProfilerSyncModeEXT that is neither of the two.
VK_PROFILER_SYNC_MODE_MAX_ENUM_EXT == "max_enum"
VK_PROFILER_MODE_PER_DRAWCALL_EXT == "per_drawcall"
VK_PROFILER_MODE_PER_PIPELINE_EXT == "per_pipeline"
VK_PROFILER_MODE_PER_RENDER_PASS_EXT == "per_render_pass"
VK_PROFILER_MODE_PER_FRAME_EXT == "per_frame"
ProfilerModes ==
  { VK_PROFILER_MODE_PER_DRAWCALL_EXT, VK_PROFILER_MODE_PER_PIPELINE_EXT,
    VK_PROFILER_MODE_PER_RENDER_PASS_EXT, VK_PROFILER_MODE_PER_FRAME_EXT }
VK_SUCCESS == "VK_SUCCESS"
VK_ERROR_VALIDATION_FAILED_EXT == "VK_ERROR_VALIDATION_FAILED_EXT"
VK_ERROR_OUT_OF_DEVICE_MEMORY == "VK_ERROR_OUT_OF_DEVICE_MEMORY"
SyncModes == {VK_PROFILER_SYNC_MODE_PRESENT_EXT, VK_PROFILER_SYNC_MODE_SUBMIT_EXT}

\* The sentinel of a timestamp that has not been read back.
Pending == -1
\* Ticks between two consecutive timestamp queries of one pool (the GPU's
\* counter is monotonic within a pool; two queries may read the same tick).
TickSteps == {0, 1}

VARIABLES
  pc,                 \* each thread's position
  loc,                \* each thread's locals
  m_SubmitMutex, m_PresentMutex, m_DataMutex,   \* owner or NoThread
  cbLock,             \* the lock of the m_CommandBuffers map
  allocLock,          \* the lock of the m_Allocations map
  m_Config,           \* [m_SyncMode, m_Mode]
  m_RenderPasses,     \* handle -> render-pass description, or NoRenderPass
  m_Pipelines,        \* handle -> pipeline description, or NoPipeline
  m_ShaderModuleHashes,   \* handle -> hash of the module's code, or NoHash
  objectNames,        \* m_pDevice->Debug.ObjectNames: handle -> name, or NoName
  m_pDevice,          \* the device the profiler is attached to, or VK_NULL_HANDLE
  internalPipelines,  \* the synthetic pipelines registered and named on the device
  m_MetricsApiINTEL,  \* whether the vendor metrics backend is available
  m_PerformanceConfigurationINTEL,   \* the thread whose PreSubmit acquired it, or VK_NULL_HANDLE
  acquiredINTEL,      \* the driver's count of configurations outstanding, by acquirer
  failedAsserts,      \* the assertions that did not hold when evaluated
  deviceMemoryExhausted,   \* whether the device fails a query-pool allocation
  m_CommandBuffers,   \* handle -> recorder, or NoCB
  m_DataAggregator,   \* the aggregator's state
  m_Data,             \* the published frame data
  m_MemoryData,       \* memory counters
  m_Allocations,      \* memory handle -> allocate info, or NoAlloc
  m_CurrentFrame,
  m_SubmitFence,      \* "unsignaled" | "signaled", VK_NULL_HANDLE, or "indeterminate"
  gpuQueue,           \* work the GPU has not executed yet
  frameStats,         \* GetCurrentFrameStats()
  calls,              \* how many calls of each kind were started
  hist                \* history: frames completely published, data appended

vars == << pc, loc, m_SubmitMutex, m_PresentMutex, m_DataMutex, cbLock, allocLock,
           m_Config, m_RenderPasses, m_Pipelines, m_ShaderModuleHashes, objectNames,
           m_pDevice, internalPipelines, m_MetricsApiINTEL,
           m_PerformanceConfigurationINTEL, acquiredINTEL, failedAsserts, deviceMemoryExhausted, m_CommandBuffers, m_DataAggregator, m_Data, m_MemoryData,
           m_Allocations, m_CurrentFrame, m_SubmitFence, gpuQueue, frameStats,
           calls, hist >>

(***************************************************************************)
(* Sequence helpers.                                                       *)
(***************************************************************************)
Top(s) == s[Len(s)]
Front(s) == SubSeq(s, 1, Len(s) - 1)
Range(s) == { s[i] : i \in 1..Len(s) }

RECURSIVE SumSeq(_)
SumSeq(s) == IF s = << >> THEN 0 ELSE Head(s) + SumSeq(Tail(s))

RECURSIVE Flatten(_)
Flatten(ss) == IF ss = << >> THEN << >> ELSE Head(ss) \o Flatten(Tail(ss))

(***************************************************************************)
(* The command-buffer recorder (ProfilerCommandBuffer).  A recorder keeps  *)
(* its regions in issue order; a region is [kind, handle, parent, bq, eq]  *)
(* where bq and eq are the indices of its begin and end timestamp queries  *)
(* in the recorder's query pool (eq = 0 while the region is open), and the *)
(* stack lists the open regions, innermost last.                           *)
(***************************************************************************)
NoCB == [state |-> "None"]

NewCommandBuffer(pool, cb) ==
  [ m_CommandPool |-> pool, m_CommandBuffer |-> cb, state |-> "Initial",
    regions |-> << >>, stack |-> << >>, queries |-> 0,
    executed |-> FALSE, step |-> 0, issued |-> << >> ]

Region(kind, handle, parent, q) ==
  [ kind |-> kind, handle |-> handle, parent |-> parent, bq |-> q, eq |-> 0 ]

\* Open a child region of the innermost open region: its begin query is written.
PushRegion(c, kind, handle) ==
  LET q == c.queries + 1
      parent == IF c.stack = << >> THEN 0 ELSE Top(c.stack)
  IN  [ c EXCEPT !.regions = Append(@, Region(kind, handle, parent, q)),
                 !.stack = Append(@, Len(c.regions) + 1),
                 !.queries = q ]

\* A close that writes no end query and reads the begin query instead.
PopRegion_NoQuery(c) ==
  [ c EXCEPT !.regions[Top(c.stack)].eq = c.regions[Top(c.stack)].bq,
             !.stack = Front(@) ]

\* Close the innermost open region: its end query is written.
PopRegion(c) ==
  LET q == c.queries + 1
  IN  [ c EXCEPT !.regions[Top(c.stack)].eq = q,
                 !.stack = Front(@),
                 !.queries = q ]

TopKind(c) == IF c.stack = << >> THEN "None" ELSE c.regions[Top(c.stack)].kind

\* Close open regions, innermost first, while the innermost is of one of `kinds`.
RECURSIVE PopWhile(_, _)
PopWhile(c, kinds) ==
  IF TopKind(c) \in kinds THEN PopWhile(PopRegion(c), kinds) ELSE c

RegionKinds == {"CommandBuffer", "RenderPass", "Subpass", "Pipeline", "Drawcall"}

\* The command goes down the chain into the command buffer: it lies behind
\* the timestamp queries written so far and before the ones written later.
Issue(c, cmd) == [ c EXCEPT !.issued = Append(@, [ cmd |-> cmd, after |-> c.queries ]) ]

\* Begin: the region stack is reset to the root CommandBuffer region.
RecorderBegin(c) ==
  PushRegion([ c EXCEPT !.regions = << >>, !.stack = << >>, !.queries = 0,
                        !.executed = FALSE, !.step = 0, !.issued = << >>,
                        !.state = "Recording" ],
             "CommandBuffer", c.m_CommandBuffer)

\* End: every region still open is closed, the root last.
RecorderEnd(c) == [ PopWhile(c, RegionKinds) EXCEPT !.state = "Ended" ]

\* BeginRenderPass: an open pipeline region ends at the render-pass boundary;
\* the render pass and its first (implicit) subpass are opened.
RecorderBeginRenderPass(c, rp) ==
  PushRegion(PushRegion(PopWhile(c, {"Pipeline"}), "RenderPass", rp), "Subpass", 0)

\* EndRenderPass: closes the open pipeline, the subpass and the render pass.
RecorderEndRenderPass(c) ==
  PopWhile(PopWhile(PopWhile(c, {"Pipeline"}), {"Subpass"}), {"RenderPass"})

\* BindPipeline: the previous pipeline region (if open) ends, a new one begins.
RecorderBindPipeline(c, p) == PushRegion(PopWhile(c, {"Pipeline"}), "Pipeline", p)

RecorderPreDraw(c) == PushRegion(c, "Drawcall", "draw")
RecorderPostDraw(c) == PopRegion(c)

\* Submit: the data is marked dirty; nothing is read back.
RecorderSubmit(c) == [ c EXCEPT !.state = "Submitted" ]

\* The tick the GPU wrote for query q of an executed recording.
Tick(c, q) == q * c.step

\* Whether a readback of the recorder finds its queries written.
Resolvable(c) == c.executed /\ c.state \in {"Submitted", "DataReady"}

\* Readback: the recorder's state after its queries were read.
RecorderResolve(c) == IF Resolvable(c) THEN [ c EXCEPT !.state = "DataReady" ] ELSE c

\* GetData: the snapshot of the region tree; the timestamps of a region are
\* its ticks once read back, and the pending sentinel before.
RecorderGetData(c) ==
  [ m_Handle |-> c.m_CommandBuffer,
    regions |-> [ i \in 1..Len(c.regions) |->
      LET r == c.regions[i]
          ok == Resolvable(c) /\ r.eq # 0
      IN  [ kind |-> r.kind, handle |-> r.handle, parent |-> r.parent,
            m_BeginTimestamp |-> IF ok THEN Tick(c, r.bq) ELSE Pending,
            m_EndTimestamp |-> IF ok THEN Tick(c, r.eq) ELSE Pending ] ] ]

(***************************************************************************)
(* What one snapshot contributes to a frame.  A region whose timestamps    *)
(* are pending contributes nothing.                                        *)
(***************************************************************************)
IsResolved(r) == r.m_BeginTimestamp # Pending /\ r.m_EndTimestamp # Pending

RegionTicks(r) == IF IsResolved(r) THEN r.m_EndTimestamp - r.m_BeginTimestamp ELSE 0

SnapshotDrawCount(s) ==
  Cardinality({ i \in DOMAIN s.regions :
                  s.regions[i].kind = "Drawcall" /\ IsResolved(s.regions[i]) })

SnapshotTicks(s) == IF s.regions = << >> THEN 0 ELSE RegionTicks(s.regions[1])

\* The resolved pipeline regions of a snapshot, in issue order.
RECURSIVE PipelinesFrom(_, _)
PipelinesFrom(s, i) ==
  IF i > Len(s.regions) THEN << >>
  ELSE LET r == s.regions[i]
       IN  (IF r.kind = "Pipeline" /\ IsResolved(r)
            THEN << [ m_Handle |-> r.handle, ticks |-> RegionTicks(r) ] >>
            ELSE << >>) \o PipelinesFrom(s, i + 1)

SnapshotPipelines(s) == PipelinesFrom(s, 1)

(***************************************************************************)
(* The data aggregator (DeviceProfilerDataAggregator).                     *)
(*   m_Submits       the submit batches appended this frame; an entry is   *)
(*                   [cb, pending, data]: pending until Aggregate folds it *)
(*   m_Data          the snapshots supplied with AppendData, by recorder   *)
(*   m_Stats         running totals                                        *)
(*   m_TopPipelines  the bounded ranking                                   *)
(*   folded          the snapshots the running totals were made from       *)
(***************************************************************************)
TopPipelineCount == 2

NoData == [m_Handle |-> VK_NULL_HANDLE, regions |-> << >>]
EmptyStats == [ m_TotalDrawCount |-> 0, m_TotalTicks |-> 0 ]

EmptyAggregator ==
  [ m_Submits |-> << >>, m_Data |-> [ h \in Handles |-> NoData ],
    m_Stats |-> EmptyStats, m_TopPipelines |-> << >>, folded |-> << >> ]

\* The index of the current minimum of a non-empty ranking (the first one).
MinIndex(top) ==
  CHOOSE i \in 1..Len(top) :
    /\ \A j \in 1..Len(top) : top[i].ticks <= top[j].ticks
    /\ \A j \in 1..(i - 1) : top[j].ticks > top[i].ticks

\* One newcomer: retained while there is room, and otherwise it displaces
\* the current minimum if it exceeds it.
\* A ranking that, once full, lets a longer newcomer displace the entry
\* in the first slot, whatever its duration.
InsertTop_DisplaceFirst(top, e, n) ==
  IF Len(top) < n THEN Append(top, e)
  ELSE IF e.ticks > top[MinIndex(top)].ticks
       THEN [ top EXCEPT ![1] = e ]
       ELSE top

InsertTop(top, e, n) ==
  IF Len(top) < n THEN Append(top, e)
  ELSE IF e.ticks > top[MinIndex(top)].ticks
       THEN [ top EXCEPT ![MinIndex(top)] = e ]
       ELSE top

RECURSIVE InsertAllTop(_, _, _)
InsertAllTop(top, es, n) ==
  IF es = << >> THEN top ELSE InsertAllTop(InsertTop(top, Head(es), n), Tail(es), n)

\* Fold one snapshot into the running totals and the ranking.
Fold(agg, snap) ==
  [ agg EXCEPT
      !.m_Stats = [ m_TotalDrawCount |-> @.m_TotalDrawCount + SnapshotDrawCount(snap),
                    m_TotalTicks |-> @.m_TotalTicks + SnapshotTicks(snap) ],
      !.m_TopPipelines = InsertAllTop(@, SnapshotPipelines(snap), TopPipelineCount),
      !.folded = Append(@, snap) ]

\* AppendSubmit: the batch joins the pending structure, unresolved.
AppendSubmit(agg, batch) ==
  [ agg EXCEPT !.m_Submits = Append(@,
      [ m_Handle |-> batch.m_Handle,
        m_Submits |-> [ i \in 1..Len(batch.m_Submits) |->
          [ j \in 1..Len(batch.m_Submits[i]) |->
            [ cb |-> batch.m_Submits[i][j], pending |-> TRUE, data |-> NoData ] ] ] ]) ]

\* AppendData: the snapshot of one recorder is supplied and folded in.
AppendData(agg, cb, snap) == [ Fold(agg, snap) EXCEPT !.m_Data[cb] = snap ]

\* An Aggregate that does not remember which entries it has folded: every
\* entry whose recorder is registered is read back and folded again.
AggregateEntry_Refold(st, e) ==
  IF st.cbs[e.cb] = NoCB THEN [ st |-> st, out |-> [ e EXCEPT !.pending = FALSE ] ]
  ELSE LET snap == RecorderGetData(st.cbs[e.cb])
       IN  [ st |-> [ agg |-> Fold(st.agg, snap),
                      cbs |-> [ st.cbs EXCEPT ![e.cb] = RecorderResolve(@) ] ],
             out |-> [ e EXCEPT !.pending = FALSE, !.data = snap ] ]

\* Aggregate, one pending entry: a snapshot supplied with AppendData is
\* taken as it is; otherwise the recorder is read back and folded in.
\* st is [agg, cbs]; the result is [st, out].
AggregateEntry(st, e) ==
  IF ~e.pending THEN [ st |-> st, out |-> e ]
  ELSE IF st.agg.m_Data[e.cb] # NoData
  THEN [ st |-> st, out |-> [ e EXCEPT !.pending = FALSE, !.data = st.agg.m_Data[e.cb] ] ]
  ELSE IF st.cbs[e.cb] = NoCB
  THEN [ st |-> st, out |-> [ e EXCEPT !.pending = FALSE ] ]
  ELSE LET snap == RecorderGetData(st.cbs[e.cb])
       IN  [ st |-> [ agg |-> Fold(st.agg, snap),
                      cbs |-> [ st.cbs EXCEPT ![e.cb] = RecorderResolve(@) ] ],
             out |-> [ e EXCEPT !.pending = FALSE, !.data = snap ] ]

RECURSIVE AggregateEntries(_, _)
AggregateEntries(st, es) ==
  IF es = << >> THEN [ st |-> st, out |-> << >> ]
  ELSE LET r1 == AggregateEntry(st, Head(es))
           r2 == AggregateEntries(r1.st, Tail(es))
       IN  [ st |-> r2.st, out |-> << r1.out >> \o r2.out ]

RECURSIVE AggregateSubmits(_, _)
AggregateSubmits(st, ss) ==
  IF ss = << >> THEN [ st |-> st, out |-> << >> ]
  ELSE LET r1 == AggregateEntries(st, Head(ss))
           r2 == AggregateSubmits(r1.st, Tail(ss))
       IN  [ st |-> r2.st, out |-> << r1.out >> \o r2.out ]

RECURSIVE AggregateBatches(_, _)
AggregateBatches(st, bs) ==
  IF bs = << >> THEN [ st |-> st, out |-> << >> ]
  ELSE LET r1 == AggregateSubmits(st, Head(bs).m_Submits)
           r2 == AggregateBatches(r1.st, Tail(bs))
       IN  [ st |-> r2.st,
             out |-> << [ Head(bs) EXCEPT !.m_Submits = r1.out ] >> \o r2.out ]

\* Aggregate: every pending entry is resolved and folded; [agg, cbs].
Aggregate(agg, cbs) ==
  LET r == AggregateBatches([ agg |-> agg, cbs |-> cbs ], agg.m_Submits)
  IN  [ agg |-> [ r.st.agg EXCEPT !.m_Submits = r.out ], cbs |-> r.st.cbs ]

\* The memory data of a default-constructed frame: no heap or type entry yet.
EmptyMemory ==
  [ m_Heaps |-> << >>, m_Types |-> << >>,
    m_TotalAllocationCount |-> 0, m_TotalAllocationSize |-> 0 ]
EmptyCPU == [ m_TimeNs |-> 0 ]

\* GetAggregatedData: the accumulated frame, the aggregator unchanged.
GetAggregatedData(agg) ==
  [ m_Submits |-> agg.m_Submits, m_Stats |-> agg.m_Stats,
    m_TopPipelines |-> agg.m_TopPipelines, folded |-> agg.folded,
    m_Memory |-> EmptyMemory, m_CPU |-> EmptyCPU ]

\* Reset: everything accumulated is cleared.
ResetAggregator(agg) == EmptyAggregator

(***************************************************************************)
(* Render passes.                                                          *)
(***************************************************************************)
\* The depth and stencil formats and one color format.
Formats ==
  { "VK_FORMAT_R8G8B8A8_UNORM", "VK_FORMAT_D16_UNORM", "VK_FORMAT_X8_D24_UNORM_PACK32",
    "VK_FORMAT_D32_SFLOAT", "VK_FORMAT_S8_UINT", "VK_FORMAT_D16_UNORM_S8_UINT",
    "VK_FORMAT_D24_UNORM_S8_UINT", "VK_FORMAT_D32_SFLOAT_S8_UINT" }
LoadOps ==
  { "VK_ATTACHMENT_LOAD_OP_LOAD", "VK_ATTACHMENT_LOAD_OP_CLEAR",
    "VK_ATTACHMENT_LOAD_OP_DONT_CARE" }
\* (~0U), read as a signed 32-bit number.
VK_ATTACHMENT_UNUSED == -1

\* The set of aspect bits the profiler takes a format to have.
GetImageAspectFlagsForFormat(format) ==
  CASE format \in {"VK_FORMAT_D16_UNORM", "VK_FORMAT_D32_SFLOAT"} ->
         {"VK_IMAGE_ASPECT_DEPTH_BIT"}
    [] format \in {"VK_FORMAT_D16_UNORM_S8_UINT", "VK_FORMAT_D24_UNORM_S8_UINT",
                   "VK_FORMAT_D32_SFLOAT_S8_UINT"} ->
         {"VK_IMAGE_ASPECT_DEPTH_BIT", "VK_IMAGE_ASPECT_STENCIL_BIT"}
    [] format = "VK_FORMAT_S8_UINT" -> {"VK_IMAGE_ASPECT_STENCIL_BIT"}
    [] OTHER -> {"VK_IMAGE_ASPECT_COLOR_BIT"}

\* One iteration of the loop of CountRenderPassAttachmentClears.
CountAttachmentClears(renderPass, attachment) ==
  LET flags == GetImageAspectFlagsForFormat(attachment.format)
      colorClear == /\ "VK_IMAGE_ASPECT_COLOR_BIT" \in flags
                    /\ attachment.loadOp = "VK_ATTACHMENT_LOAD_OP_CLEAR"
      hasDepthClear == /\ "VK_IMAGE_ASPECT_DEPTH_BIT" \in flags
                       /\ attachment.loadOp = "VK_ATTACHMENT_LOAD_OP_CLEAR"
      stencilClear == /\ "VK_IMAGE_ASPECT_STENCIL_BIT" \in flags
                      /\ attachment.stencilLoadOp = "VK_ATTACHMENT_LOAD_OP_CLEAR"
  IN  [ renderPass EXCEPT
          !.m_ClearColorAttachmentCount = IF colorClear THEN @ + 1 ELSE @,
          !.m_ClearDepthStencilAttachmentCount =
             (IF hasDepthClear THEN @ + 1 ELSE @)
               + (IF stencilClear /\ ~hasDepthClear THEN 1 ELSE 0) ]

RECURSIVE CountRenderPassAttachmentClears(_, _)
CountRenderPassAttachmentClears(renderPass, attachments) ==
  IF attachments = << >> THEN renderPass
  ELSE CountRenderPassAttachmentClears(CountAttachmentClears(renderPass, Head(attachments)),
                                       Tail(attachments))

\* The resolve count of a subpass: its resolve attachments that are used.
CountSubpassAttachmentResolves(subpass, description) ==
  IF description.hasResolveAttachments
  THEN [ subpass EXCEPT !.m_ResolveCount =
           @ + Cardinality({ i \in DOMAIN description.resolveAttachments :
                               description.resolveAttachments[i] # VK_ATTACHMENT_UNUSED }) ]
  ELSE subpass

NoRenderPass == [ m_Handle |-> VK_NULL_HANDLE ]
NoCreateInfo == [ attachments |-> "none" ]

\* The render-pass description CreateRenderPass stores for a create info.
DeviceProfilerRenderPass(renderPass, createInfo) ==
  CountRenderPassAttachmentClears(
    [ m_Handle |-> renderPass,
      m_Subpasses |-> [ i \in 1..Len(createInfo.subpasses) |->
                          CountSubpassAttachmentResolves(
                            [ m_Index |-> i - 1, m_ResolveCount |-> 0 ],
                            createInfo.subpasses[i]) ],
      m_ClearColorAttachmentCount |-> 0,
      m_ClearDepthStencilAttachmentCount |-> 0 ],
    createInfo.attachments)

(***************************************************************************)
(* Shader modules and pipelines.  A fingerprint is a HashBits-wide number; *)
(* shader code and entry-point names are sequences of small numbers.       *)
(***************************************************************************)
HashBits == 2
MaxCodeSize == 2

RECURSIVE Pow2(_)
Pow2(n) == IF n = 0 THEN 1 ELSE 2 * Pow2(n - 1)
HashSpace == Pow2(HashBits)

CodeWords == {0, 1}
ShaderCodes == UNION { [ 1..n -> CodeWords ] : n \in 1..MaxCodeSize }
\* "main" and "m"
EntryPoints == { << 1, 0 >>, << 1 >> }
ShaderModuleHandles == {"sm1", "sm2"}

\* Hash::Fingerprint32( data, size ): a deterministic mix of the bytes into
\* the hash space.
RECURSIVE Mix(_, _)
Mix(h, data) ==
  IF data = << >> THEN h ELSE Mix((h * 5 + Head(data) + 1) % HashSpace, Tail(data))
Fingerprint32(data) == Mix(Len(data) % HashSpace, data)

\* a ^ b on numbers of n bits
RECURSIVE XorBits(_, _, _)
XorBits(a, b, n) ==
  IF n = 0 THEN 0
  ELSE (((a % 2) + (b % 2)) % 2) + 2 * XorBits(a \div 2, b \div 2, n - 1)
Xor(a, b) == XorBits(a, b, HashBits)

NoHash == -1
NoName == << >>

\* u32tohex: the digits of a hash, most significant first, HexDigits of them.
HexDigits == (HashBits + 3) \div 4
HexChars == << "0", "1", "2", "3", "4", "5", "6", "7", "8", "9", "A", "B", "C", "D", "E", "F" >>
RECURSIVE u32tohex(_, _)
u32tohex(value, digits) ==
  IF digits = 0 THEN << >>
  ELSE Append(u32tohex(value \div 16, digits - 1), HexChars[(value % 16) + 1])
NoPipeline == [ m_Handle |-> VK_NULL_HANDLE ]

GraphicsStages ==
  { "VK_SHADER_STAGE_VERTEX_BIT", "VK_SHADER_STAGE_TESSELLATION_CONTROL_BIT",
    "VK_SHADER_STAGE_TESSELLATION_EVALUATION_BIT", "VK_SHADER_STAGE_GEOMETRY_BIT",
    "VK_SHADER_STAGE_FRAGMENT_BIT" }

\* A default-constructed ProfilerShaderTuple.
EmptyShaderTuple ==
  [ m_Hash |-> 0, m_Vert |-> 0, m_Tesc |-> 0, m_Tese |-> 0, m_Geom |-> 0,
    m_Frag |-> 0, m_Comp |-> 0 ]

\* The tuple's bytes, as Fingerprint32 reads them.
TupleBytes(tuple) ==
  << tuple.m_Hash, tuple.m_Vert, tuple.m_Tesc, tuple.m_Tese, tuple.m_Geom,
     tuple.m_Frag, tuple.m_Comp >>

\* A stage hash that leaves the entry point out.
StageHash_NoEntryPoint(hashes, stageInfo) == hashes[stageInfo.module]

\* One stage: m_ShaderModuleHashes.at( module ) ^ Fingerprint32( pName ).
StageHash(hashes, stageInfo) == Xor(hashes[stageInfo.module], Fingerprint32(stageInfo.pName))

SetStage(tuple, stage, hash) ==
  CASE stage = "VK_SHADER_STAGE_VERTEX_BIT" -> [ tuple EXCEPT !.m_Vert = hash ]
    [] stage = "VK_SHADER_STAGE_TESSELLATION_CONTROL_BIT" -> [ tuple EXCEPT !.m_Tesc = hash ]
    [] stage = "VK_SHADER_STAGE_TESSELLATION_EVALUATION_BIT" -> [ tuple EXCEPT !.m_Tese = hash ]
    [] stage = "VK_SHADER_STAGE_GEOMETRY_BIT" -> [ tuple EXCEPT !.m_Geom = hash ]
    [] stage = "VK_SHADER_STAGE_FRAGMENT_BIT" -> [ tuple EXCEPT !.m_Frag = hash ]

RECURSIVE SetStages(_, _, _)
SetStages(tuple, hashes, stages) ==
  IF stages = << >> THEN tuple
  ELSE SetStages(SetStage(tuple, Head(stages).stage, StageHash(hashes, Head(stages))),
                 hashes, Tail(stages))

\* CreateShaderTuple( const VkGraphicsPipelineCreateInfo& )
CreateGraphicsShaderTuple(hashes, createInfo) ==
  LET tuple == SetStages(EmptyShaderTuple, hashes, createInfo.pStages)
  IN  [ tuple EXCEPT !.m_Hash = Fingerprint32(TupleBytes(tuple)) ]

\* CreateShaderTuple( const VkComputePipelineCreateInfo& )
CreateComputeShaderTuple(hashes, createInfo) ==
  LET hash == StageHash(hashes, createInfo.stage)
  IN  [ EmptyShaderTuple EXCEPT !.m_Comp = hash, !.m_Hash = hash ]

(***************************************************************************)
(* DeviceProfiler: construction.                                           *)
(***************************************************************************)
MemoryTypes == {1, 2}
MemoryHeaps == {1}
\* m_pDevice->MemoryProperties.memoryTypes[ type ].heapIndex
HeapIndex(type) == 1
AllocationSizes == {1, 2}
NoAlloc == [ memoryTypeIndex |-> 0, allocationSize |-> 0 ]
ZeroCounter == [ m_AllocationCount |-> 0, m_AllocationSize |-> 0 ]

\* m_Data(): a default-constructed frame.
InitialData ==
  [ m_Submits |-> << >>, m_Stats |-> EmptyStats, m_TopPipelines |-> << >>,
    folded |-> << >>, m_Memory |-> EmptyMemory, m_CPU |-> EmptyCPU ]

\* The four registries of the profiler (ConcurrentMap members).
RegistryNames == { "m_CommandBuffers", "m_Pipelines", "m_RenderPasses", "m_ShaderModuleHashes" }
NoLookup == [ registry |-> "none", handle |-> "none", status |-> "none" ]

NoRet == [ m_Submits |-> "none" ]
IdleLoc == [ arg |-> << >>, ret |-> NoRet ]

CallKinds == {"submits", "allocs", "reads", "recordings", "cbAllocs", "configs", "inits", "frees"}

\* The profiler after the constructor and Initialize, with or without the
\* vendor metrics backend; the synchronization mode is one of the two that
\* SetSyncMode accepts.
\* DeviceProfilerPipelineType: the synthetic pipelines Initialize registers.
InternalPipelineTypes ==
  { "eCopyBuffer", "eCopyBufferToImage", "eCopyImage", "eCopyImageToBuffer",
    "eClearAttachments", "eClearColorImage", "eClearDepthStencilImage",
    "eResolveImage", "eBlitImage", "eFillBuffer", "eUpdatBuffer",
    "eBeginRenderPass", "eEndRenderPass" }

NoDeviceCall == [ op |-> "none", failed |-> "none", error |-> "none", returned |-> "none",
                  destroyedFence |-> "none" ]

ProfilerState(device, metrics, internal, fence) ==
  /\ pc = [ t \in Threads |-> "idle" ]
  /\ loc = [ t \in Threads |-> IdleLoc ]
  /\ m_SubmitMutex = NoThread /\ m_PresentMutex = NoThread /\ m_DataMutex = NoThread
  /\ cbLock = NoThread /\ allocLock = NoThread
  /\ m_Config \in [ m_SyncMode : SyncModes, m_Mode : {VK_PROFILER_MODE_PER_DRAWCALL_EXT} ]
  /\ m_CommandBuffers = [ h \in Handles |-> NoCB ]
  /\ m_RenderPasses = [ rp \in RenderPassHandles |-> NoRenderPass ]
  /\ m_Pipelines = [ p \in PipelineHandles |-> NoPipeline ]
  /\ m_ShaderModuleHashes = [ m \in ShaderModuleHandles |-> NoHash ]
  /\ objectNames = [ p \in PipelineHandles |-> NoName ]
  /\ m_pDevice = device
  /\ internalPipelines = internal
  /\ m_MetricsApiINTEL = metrics
  /\ m_PerformanceConfigurationINTEL = VK_NULL_HANDLE
  /\ acquiredINTEL = [ t \in Threads |-> 0 ]
  /\ failedAsserts = {}
  /\ deviceMemoryExhausted = FALSE
  /\ m_DataAggregator = EmptyAggregator
  /\ m_Data = InitialData
  /\ m_MemoryData = [ m_Heaps |-> [ h \in MemoryHeaps |-> ZeroCounter ],
                      m_Types |-> [ ty \in MemoryTypes |-> ZeroCounter ],
                      m_TotalAllocationCount |-> 0, m_TotalAllocationSize |-> 0 ]
  /\ m_Allocations = [ m \in MemoryHandles |-> NoAlloc ]
  /\ m_CurrentFrame = 0
  /\ m_SubmitFence = fence
  /\ gpuQueue = << >>
  /\ frameStats = [ drawCount |-> 0 ]
  /\ calls = [ k \in CallKinds |-> 0 ]
  /\ hist = [ published |-> << >>, freed |-> << >>, submitted |-> << >>,
              cmds |-> [ h \in Handles |-> << >> ],
              createInfo |-> [ rp \in RenderPassHandles |-> NoCreateInfo ],
              poolFree |-> [ pool |-> VK_NULL_HANDLE, removed |-> {}, kept |-> {} ],
              overlap |-> FALSE,
              code |-> [ m \in ShaderModuleHandles |-> << >> ],
              shaders |-> [ p \in PipelineHandles |-> << >> ],
              config |-> [ op |-> "none", arg |-> "none", result |-> "none" ],
              live |-> [ r \in RegistryNames |-> {} ],
              lookup |-> NoLookup,
              begin |-> [ cb |-> "none", status |-> "none", returned |-> "none" ],
              device |-> NoDeviceCall ]

Initialized(metrics) == ProfilerState("device", metrics, InternalPipelineTypes, "unsignaled")

Init == Initialized(FALSE)
\* The same with VK_INTEL_performance_query enabled and the backend loaded.
InitINTEL == Initialized(TRUE)

Goto(t, p) == pc' = [ pc EXCEPT ![t] = p ]
Return(t) == pc' = [ pc EXCEPT ![t] = "idle" ]
Count(k) == calls' = [ calls EXCEPT ![k] = @ + 1 ]

Mutexes == << m_SubmitMutex, m_PresentMutex, m_DataMutex, cbLock, allocLock >>
Registries == << m_RenderPasses, m_Pipelines, m_ShaderModuleHashes, objectNames >>
Device == << m_pDevice, internalPipelines, m_MetricsApiINTEL, m_PerformanceConfigurationINTEL, acquiredINTEL,
             failedAsserts, deviceMemoryExhausted >>
Objects == << Registries, Device >>
Memory == << m_MemoryData, m_Allocations >>
GpuVars == << m_SubmitFence, gpuQueue >>

(***************************************************************************)
(* GetData: a copy of m_Data under the data lock.  The copy is member by   *)
(* member; FinishFrame writes members of m_Data outside the lock, so the   *)
(* copy is taken in two steps.                                             *)
(***************************************************************************)
GetData_Lock(t) ==
  /\ pc[t] = "idle" /\ calls.reads < MaxReads
  /\ m_DataMutex = NoThread
  /\ m_DataMutex' = t
  /\ Count("reads") /\ Goto(t, "gd_copy")
  /\ loc' = [ loc EXCEPT ![t] = IdleLoc ]
  /\ UNCHANGED << m_SubmitMutex, m_PresentMutex, cbLock, allocLock, m_Config, Objects,
                  m_CommandBuffers, m_DataAggregator, m_Data, Memory,
                  m_CurrentFrame, GpuVars, frameStats, hist >>

GetData_Copy(t) ==
  /\ pc[t] = "gd_copy"
  /\ loc' = [ loc EXCEPT ![t].ret = [ m_Data EXCEPT !.m_CPU = [ m_TimeNs |-> -1 ] ] ]
  /\ Goto(t, "gd_copy_cpu")
  /\ UNCHANGED << Mutexes, m_Config, Objects, m_CommandBuffers, m_DataAggregator, m_Data,
                  Memory, m_CurrentFrame, GpuVars, frameStats, calls, hist >>

\* A GetData that returns without releasing the data lock.
GetData_ReturnLocked(t) ==
  /\ pc[t] = "gd_copy_cpu"
  /\ loc' = [ loc EXCEPT ![t].ret.m_CPU = m_Data.m_CPU ]
  /\ Return(t)
  /\ UNCHANGED << Mutexes, m_Config, Objects, m_CommandBuffers, m_DataAggregator, m_Data,
                  Memory, m_CurrentFrame, GpuVars, frameStats, calls, hist >>

GetData_Return(t) ==
  /\ pc[t] = "gd_copy_cpu"
  /\ loc' = [ loc EXCEPT ![t].ret.m_CPU = m_Data.m_CPU ]
  /\ m_DataMutex' = NoThread
  /\ Return(t)
  /\ UNCHANGED << m_SubmitMutex, m_PresentMutex, cbLock, allocLock, m_Config, Objects,
                  m_CommandBuffers, m_DataAggregator, m_Data, Memory,
                  m_CurrentFrame, GpuVars, frameStats, calls, hist >>

(***************************************************************************)
(* FinishFrame.                                                            *)
(***************************************************************************)
\* A FinishFrame that takes the data lock on entry, together with the
\* present mutex, and so holds it across the device-idle wait.
FinishFrame_EnterLockingData(t) ==
  /\ pc[t] = "idle" /\ m_CurrentFrame < MaxFrames
  /\ m_PresentMutex = NoThread /\ m_DataMutex = NoThread
  /\ m_PresentMutex' = t /\ m_DataMutex' = t
  /\ m_CurrentFrame' = m_CurrentFrame + 1
  /\ Goto(t, IF m_Config.m_SyncMode = VK_PROFILER_SYNC_MODE_PRESENT_EXT
             THEN "ff_wait" ELSE "ff_assign")
  /\ loc' = [ loc EXCEPT ![t] = IdleLoc ]
  /\ UNCHANGED << m_SubmitMutex, cbLock, allocLock, m_Config, Objects,
                  m_CommandBuffers, m_DataAggregator, m_Data, Memory,
                  GpuVars, frameStats, calls, hist >>

\* scoped_lock( m_PresentMutex ); m_CurrentFrame++; the mode is read.
FinishFrame_Enter(t) ==
  /\ pc[t] = "idle" /\ m_CurrentFrame < MaxFrames
  /\ m_PresentMutex = NoThread
  /\ m_PresentMutex' = t
  /\ m_CurrentFrame' = m_CurrentFrame + 1
  /\ Goto(t, IF m_Config.m_SyncMode = VK_PROFILER_SYNC_MODE_PRESENT_EXT
             THEN "ff_wait" ELSE "ff_lockdata")
  /\ loc' = [ loc EXCEPT ![t] = IdleLoc ]
  /\ UNCHANGED << m_SubmitMutex, m_DataMutex, cbLock, allocLock, m_Config, Objects,
                  m_CommandBuffers, m_DataAggregator, m_Data, Memory,
                  GpuVars, frameStats, calls, hist >>

\* DeviceWaitIdle: returns once the GPU has nothing left to execute.
FinishFrame_WaitIdle(t) ==
  /\ pc[t] = "ff_wait"
  /\ gpuQueue = << >>
  /\ Goto(t, "ff_aggregate")
  /\ UNCHANGED << loc, Mutexes, m_Config, Objects, m_CommandBuffers, m_DataAggregator,
                  m_Data, Memory, m_CurrentFrame, GpuVars, frameStats, calls, hist >>

\* m_DataAggregator.Aggregate()
FinishFrame_Aggregate(t) ==
  /\ pc[t] = "ff_aggregate"
  /\ LET r == Aggregate(m_DataAggregator, m_CommandBuffers)
     IN  /\ m_DataAggregator' = r.agg
         /\ m_CommandBuffers' = r.cbs
  /\ Goto(t, "ff_lockdata")
  /\ UNCHANGED << loc, Mutexes, m_Config, Objects, m_Data, Memory, m_CurrentFrame,
                  GpuVars, frameStats, calls, hist >>

\* scoped_lock lk2( m_DataMutex )
FinishFrame_LockData(t) ==
  /\ pc[t] = "ff_lockdata"
  /\ m_DataMutex = NoThread
  /\ m_DataMutex' = t
  /\ Goto(t, "ff_assign")
  /\ UNCHANGED << loc, m_SubmitMutex, m_PresentMutex, cbLock, allocLock, m_Config, Objects,
                  m_CommandBuffers, m_DataAggregator, m_Data, Memory,
                  m_CurrentFrame, GpuVars, frameStats, calls, hist >>

\* m_Data = m_DataAggregator.GetAggregatedData(); lk2 is released.
FinishFrame_Assign(t) ==
  /\ pc[t] = "ff_assign"
  /\ m_Data' = GetAggregatedData(m_DataAggregator)
  /\ m_DataMutex' = NoThread
  /\ Goto(t, "ff_memory")
  /\ UNCHANGED << loc, m_SubmitMutex, m_PresentMutex, cbLock, allocLock, m_Config, Objects,
                  m_CommandBuffers, m_DataAggregator, Memory, m_CurrentFrame,
                  GpuVars, frameStats, calls, hist >>

\* m_Data.m_Memory = m_MemoryData
FinishFrame_AttachMemory(t) ==
  /\ pc[t] = "ff_memory"
  /\ m_Data' = [ m_Data EXCEPT !.m_Memory = m_MemoryData ]
  /\ Goto(t, "ff_cpu")
  /\ UNCHANGED << loc, Mutexes, m_Config, Objects, m_CommandBuffers, m_DataAggregator,
                  Memory, m_CurrentFrame, GpuVars, frameStats, calls, hist >>

\* m_Data.m_CPU: the frame's CPU-side statistics (the time measured for
\* this frame stands for all of them).  The frame is now completely
\* published, which the history records.
FinishFrame_AttachCPU(t) ==
  /\ pc[t] = "ff_cpu"
  /\ m_Data' = [ m_Data EXCEPT !.m_CPU = [ m_TimeNs |-> m_CurrentFrame ] ]
  /\ hist' = [ hist EXCEPT !.published = Append(@, m_Data') ]
  /\ Goto(t, "ff_reset")
  /\ UNCHANGED << loc, Mutexes, m_Config, Objects, m_CommandBuffers, m_DataAggregator,
                  Memory, m_CurrentFrame, GpuVars, frameStats, calls >>

\* A FinishFrame that returns without resetting the aggregator.
FinishFrame_KeepAccumulated(t) ==
  /\ pc[t] = "ff_reset"
  /\ m_PresentMutex' = NoThread
  /\ Return(t)
  /\ UNCHANGED << loc, m_SubmitMutex, m_DataMutex, cbLock, allocLock, m_Config, Objects,
                  m_CommandBuffers, m_DataAggregator, m_Data, Memory, m_CurrentFrame,
                  GpuVars, frameStats, calls, hist >>

\* m_DataAggregator.Reset(); the present mutex is released on return.
FinishFrame_Reset(t) ==
  /\ pc[t] = "ff_reset"
  /\ m_DataAggregator' = ResetAggregator(m_DataAggregator)
  /\ m_PresentMutex' = NoThread
  /\ Return(t)
  /\ UNCHANGED << loc, m_SubmitMutex, m_DataMutex, cbLock, allocLock, m_Config, Objects,
                  m_CommandBuffers, m_Data, Memory, m_CurrentFrame, GpuVars,
                  frameStats, calls, hist >>

(***************************************************************************)
(* vkQueueSubmit: PreSubmitCommandBuffers, the call down the chain, then   *)
(* PostSubmitCommandBuffers.                                               *)
(***************************************************************************)
CbLists ==
  { << a >> : a \in Handles } \cup
  { s \in { << a, b >> : a \in Handles, b \in Handles } : s[1] # s[2] }
SubmitLists ==
  { << s >> : s \in CbLists } \cup
  { ss \in { << s1, s2 >> : s1 \in CbLists, s2 \in CbLists } :
      Range(ss[1]) \cap Range(ss[2]) = {} }

\* The command buffers some vkQueueSubmit call in progress refers to.
InSubmitCall ==
  UNION { Range(Flatten(loc[t].arg)) :
            t \in { u \in Threads : pc[u] \in {"ps_enter", "ps_wait", "ps_build", "ps_final"} } }
\* The command buffers the GPU has been handed and has not executed.
OnGpu == UNION { Range(gpuQueue[i].cbs) : i \in 1..Len(gpuQueue) }

\* PreSubmitCommandBuffers: the handle is asserted null; with the vendor
\* metrics backend available a configuration is acquired and set for the
\* queue.  No mutex is taken.
PreSubmitCommandBuffers(t) ==
  /\ failedAsserts' =
       IF m_PerformanceConfigurationINTEL = VK_NULL_HANDLE THEN failedAsserts
       ELSE failedAsserts \cup { "PreSubmitCommandBuffers" }
  /\ IF m_MetricsApiINTEL
     THEN /\ m_PerformanceConfigurationINTEL' = t
          /\ acquiredINTEL' = [ acquiredINTEL EXCEPT ![t] = @ + 1 ]
     ELSE UNCHANGED << m_PerformanceConfigurationINTEL, acquiredINTEL >>
  /\ UNCHANGED << m_pDevice, internalPipelines, m_MetricsApiINTEL, deviceMemoryExhausted >>

\* PostSubmitCommandBuffers, "Release performance configuration": a
\* non-null handle is released and reset.
ReleasePerformanceConfiguration ==
  /\ IF m_PerformanceConfigurationINTEL # VK_NULL_HANDLE
     THEN /\ acquiredINTEL' = [ acquiredINTEL EXCEPT ![m_PerformanceConfigurationINTEL] = @ - 1 ]
          /\ m_PerformanceConfigurationINTEL' = VK_NULL_HANDLE
     ELSE UNCHANGED << m_PerformanceConfigurationINTEL, acquiredINTEL >>
  /\ UNCHANGED << m_pDevice, internalPipelines, m_MetricsApiINTEL, failedAsserts,
                  deviceMemoryExhausted >>

\* vkQueueSubmit: PreSubmitCommandBuffers, then the next layer's
\* vkQueueSubmit hands the work to the GPU.
QueueSubmit(t, submits) ==
  /\ pc[t] = "idle" /\ calls.submits < MaxSubmits
  /\ PreSubmitCommandBuffers(t)
  /\ \A h \in Range(Flatten(submits)) :
        /\ m_CommandBuffers[h].state \in {"Ended", "Submitted", "DataReady"}
        /\ h \notin OnGpu \cup InSubmitCall
  /\ gpuQueue' = Append(gpuQueue, [ fence |-> FALSE, cbs |-> Flatten(submits) ])
  /\ loc' = [ loc EXCEPT ![t] = [ IdleLoc EXCEPT !.arg = submits ] ]
  /\ Count("submits") /\ Goto(t, "ps_enter")
  /\ UNCHANGED << Mutexes, m_Config, Registries, m_CommandBuffers, m_DataAggregator, m_Data,
                  Memory, m_CurrentFrame, m_SubmitFence, frameStats, hist >>

\* A PostSubmit that queues the empty submission and waits for the fence in
\* either synchronization mode.
PostSubmit_EnterWaiting(t) ==
  /\ pc[t] = "ps_enter"
  /\ m_SubmitMutex = NoThread
  /\ m_SubmitMutex' = t
  /\ gpuQueue' = Append(gpuQueue, [ fence |-> TRUE, cbs |-> << >> ])
  /\ Goto(t, "ps_wait")
  /\ UNCHANGED << loc, m_PresentMutex, m_DataMutex, cbLock, allocLock, m_Config, Objects,
                  m_CommandBuffers, m_DataAggregator, m_Data, Memory,
                  m_CurrentFrame, m_SubmitFence, frameStats, calls, hist >>

\* scoped_lock( m_SubmitMutex ); in submit mode an empty submission that
\* signals m_SubmitFence is queued.
PostSubmit_Enter(t) ==
  /\ pc[t] = "ps_enter"
  /\ m_SubmitMutex = NoThread
  /\ m_SubmitMutex' = t
  /\ IF m_Config.m_SyncMode = VK_PROFILER_SYNC_MODE_SUBMIT_EXT
     THEN /\ gpuQueue' = Append(gpuQueue, [ fence |-> TRUE, cbs |-> << >> ])
          /\ Goto(t, "ps_wait")
     ELSE /\ UNCHANGED gpuQueue
          /\ Goto(t, "ps_build")
  /\ UNCHANGED << loc, m_PresentMutex, m_DataMutex, cbLock, allocLock, m_Config, Objects,
                  m_CommandBuffers, m_DataAggregator, m_Data, Memory,
                  m_CurrentFrame, m_SubmitFence, frameStats, calls, hist >>

\* A wait that leaves the fence as WaitForFences found it.
PostSubmit_Wait_NoReset(t) ==
  /\ pc[t] = "ps_wait"
  /\ m_SubmitFence = "signaled"
  /\ Goto(t, "ps_build")
  /\ UNCHANGED << loc, Mutexes, m_Config, Objects, m_CommandBuffers, m_DataAggregator,
                  m_Data, Memory, m_CurrentFrame, GpuVars, frameStats, calls, hist >>

\* WaitForFences returns once the fence is signaled; ResetFences.
PostSubmit_Wait(t) ==
  /\ pc[t] = "ps_wait"
  /\ m_SubmitFence = "signaled"
  /\ m_SubmitFence' = "unsignaled"
  /\ Goto(t, "ps_build")
  /\ UNCHANGED << loc, Mutexes, m_Config, Objects, m_CommandBuffers, m_DataAggregator,
                  m_Data, Memory, m_CurrentFrame, gpuQueue, frameStats, calls, hist >>

\* Submit() on the recorder of every command buffer of the batch.
RECURSIVE SubmitAll(_, _)
SubmitAll(cbs, hs) ==
  IF hs = << >> THEN cbs
  ELSE SubmitAll([ cbs EXCEPT ![Head(hs)] = RecorderSubmit(@) ], Tail(hs))

\* What the history keeps of a submission: the frame being accumulated, the
\* command buffers, the commands they were recorded with and the number of
\* recordings begun so far.
SubmittedEntry(t) ==
  [ frame |-> m_CurrentFrame + 1, cbs |-> Flatten(loc[t].arg),
    cmds |-> hist.cmds, rec |-> calls.recordings ]

\* A PostSubmit that hands the batch to the aggregator and does not call
\* Submit() on the recorders.
PostSubmit_BuildUnmarked(t) ==
  /\ pc[t] = "ps_build"
  /\ cbLock = NoThread
  /\ \A h \in Range(Flatten(loc[t].arg)) : m_CommandBuffers[h] # NoCB
  /\ m_DataAggregator' =
       AppendSubmit(m_DataAggregator, [ m_Handle |-> Queue, m_Submits |-> loc[t].arg ])
  /\ hist' = [ hist EXCEPT !.submitted = Append(@, SubmittedEntry(t)) ]
  /\ Goto(t, "ps_final")
  /\ UNCHANGED << loc, Mutexes, m_Config, Objects, m_CommandBuffers, m_Data, Memory,
                  m_CurrentFrame, GpuVars, frameStats, calls >>

\* A PostSubmit that hands the aggregator the first command buffer of each
\* submit only.
PostSubmit_BuildFirstOnly(t) ==
  /\ pc[t] = "ps_build"
  /\ cbLock = NoThread
  /\ \A h \in Range(Flatten(loc[t].arg)) : m_CommandBuffers[h] # NoCB
  /\ m_CommandBuffers' = SubmitAll(m_CommandBuffers, Flatten(loc[t].arg))
  /\ m_DataAggregator' =
       AppendSubmit(m_DataAggregator,
         [ m_Handle |-> Queue,
           m_Submits |-> [ i \in 1..Len(loc[t].arg) |-> << Head(loc[t].arg[i]) >> ] ])
  /\ hist' = [ hist EXCEPT !.submitted = Append(@, SubmittedEntry(t)) ]
  /\ Goto(t, "ps_final")
  /\ UNCHANGED << loc, Mutexes, m_Config, Objects, m_Data, Memory, m_CurrentFrame,
                  GpuVars, frameStats, calls >>

\* A PostSubmit that hands the submits over in reverse order.
PostSubmit_BuildReversed(t) ==
  /\ pc[t] = "ps_build"
  /\ cbLock = NoThread
  /\ \A h \in Range(Flatten(loc[t].arg)) : m_CommandBuffers[h] # NoCB
  /\ m_CommandBuffers' = SubmitAll(m_CommandBuffers, Flatten(loc[t].arg))
  /\ m_DataAggregator' =
       AppendSubmit(m_DataAggregator,
         [ m_Handle |-> Queue,
           m_Submits |-> [ i \in 1..Len(loc[t].arg) |-> loc[t].arg[Len(loc[t].arg) + 1 - i] ] ])
  /\ hist' = [ hist EXCEPT !.submitted = Append(@, SubmittedEntry(t)) ]
  /\ Goto(t, "ps_final")
  /\ UNCHANGED << loc, Mutexes, m_Config, Objects, m_Data, Memory, m_CurrentFrame,
                  GpuVars, frameStats, calls >>

\* The batch is built (each command buffer is looked up in the registry
\* and marked submitted) and handed to the aggregator.
PostSubmit_Build(t) ==
  /\ pc[t] = "ps_build"
  /\ cbLock = NoThread
  /\ \A h \in Range(Flatten(loc[t].arg)) : m_CommandBuffers[h] # NoCB
  /\ m_CommandBuffers' = SubmitAll(m_CommandBuffers, Flatten(loc[t].arg))
  /\ m_DataAggregator' =
       AppendSubmit(m_DataAggregator, [ m_Handle |-> Queue, m_Submits |-> loc[t].arg ])
  /\ hist' = [ hist EXCEPT !.submitted = Append(@, SubmittedEntry(t)) ]
  /\ Goto(t, "ps_final")
  /\ UNCHANGED << loc, Mutexes, m_Config, Objects, m_Data, Memory, m_CurrentFrame,
                  GpuVars, frameStats, calls >>

\* A PostSubmit that collects the data in either synchronization mode.
PostSubmit_FinalCollecting(t) ==
  /\ pc[t] = "ps_final"
  /\ LET r == Aggregate(m_DataAggregator, m_CommandBuffers)
     IN  /\ m_DataAggregator' = r.agg
         /\ m_CommandBuffers' = r.cbs
  /\ ReleasePerformanceConfiguration
  /\ m_SubmitMutex' = NoThread
  /\ loc' = [ loc EXCEPT ![t] = IdleLoc ]
  /\ Return(t)
  /\ UNCHANGED << m_PresentMutex, m_DataMutex, cbLock, allocLock, m_Config, Registries, m_Data,
                  Memory, m_CurrentFrame, GpuVars, frameStats, calls, hist >>

\* In submit mode the data is collected at once; the mutex is released.
PostSubmit_Final(t) ==
  /\ pc[t] = "ps_final"
  /\ LET r == IF m_Config.m_SyncMode = VK_PROFILER_SYNC_MODE_SUBMIT_EXT
              THEN Aggregate(m_DataAggregator, m_CommandBuffers)
              ELSE [ agg |-> m_DataAggregator, cbs |-> m_CommandBuffers ]
     IN  /\ m_DataAggregator' = r.agg
         /\ m_CommandBuffers' = r.cbs
  /\ ReleasePerformanceConfiguration
  /\ m_SubmitMutex' = NoThread
  /\ loc' = [ loc EXCEPT ![t] = IdleLoc ]
  /\ Return(t)
  /\ UNCHANGED << m_PresentMutex, m_DataMutex, cbLock, allocLock, m_Config, Registries, m_Data,
                  Memory, m_CurrentFrame, GpuVars, frameStats, calls, hist >>

(***************************************************************************)
(* The GPU executes queued work in submission order.                       *)
(***************************************************************************)
RECURSIVE ExecuteAll(_, _, _)
ExecuteAll(cbs, hs, step) ==
  IF hs = << >> THEN cbs
  ELSE ExecuteAll([ cbs EXCEPT ![Head(hs)] =
                      IF @ = NoCB THEN @ ELSE [ @ EXCEPT !.executed = TRUE, !.step = step ] ],
                  Tail(hs), step)

GpuExecute ==
  /\ gpuQueue # << >>
  /\ gpuQueue' = Tail(gpuQueue)
  /\ IF Head(gpuQueue).fence
     THEN /\ m_SubmitFence' = "signaled"
          /\ UNCHANGED m_CommandBuffers
     ELSE /\ \E step \in TickSteps :
               m_CommandBuffers' = ExecuteAll(m_CommandBuffers, Head(gpuQueue).cbs, step)
          /\ UNCHANGED m_SubmitFence
  /\ UNCHANGED << pc, loc, Mutexes, m_Config, Objects, m_DataAggregator, m_Data, Memory,
                  m_CurrentFrame, frameStats, calls, hist >>

(***************************************************************************)
(* Command-buffer registration.  AllocateCommandBuffers and both           *)
(* FreeCommandBuffers take m_SubmitMutex, m_PresentMutex and the registry  *)
(* lock together.                                                          *)
(***************************************************************************)
\* A lock of the present mutex and the registry that leaves the submit
\* mutex alone.
LockAll_NoSubmitMutex(t) ==
  /\ m_PresentMutex = NoThread /\ cbLock = NoThread
  /\ m_PresentMutex' = t /\ cbLock' = t /\ UNCHANGED m_SubmitMutex

LockAll(t) ==
  /\ m_SubmitMutex = NoThread /\ m_PresentMutex = NoThread /\ cbLock = NoThread
  /\ m_SubmitMutex' = t /\ m_PresentMutex' = t /\ cbLock' = t

UnlockAll ==
  /\ m_SubmitMutex' = NoThread /\ m_PresentMutex' = NoThread /\ cbLock' = NoThread

AllocateCommandBuffers_Enter(t, pool, hs) ==
  /\ pc[t] = "idle" /\ calls.cbAllocs < MaxCbAllocs
  /\ \A h \in Range(hs) : m_CommandBuffers[h] = NoCB
  /\ LockAll(t)
  /\ loc' = [ loc EXCEPT ![t] = [ IdleLoc EXCEPT !.arg = [ pool |-> pool, hs |-> hs ] ] ]
  /\ Count("cbAllocs") /\ Goto(t, "acb_insert")
  /\ UNCHANGED << m_DataMutex, allocLock, m_Config, Objects, m_CommandBuffers, m_DataAggregator,
                  m_Data, Memory, m_CurrentFrame, GpuVars, frameStats, hist >>

RECURSIVE InsertAll(_, _, _)
InsertAll(cbs, pool, hs) ==
  IF hs = << >> THEN cbs
  ELSE InsertAll([ cbs EXCEPT ![Head(hs)] = NewCommandBuffer(pool, Head(hs)) ], pool, Tail(hs))

AllocateCommandBuffers_Insert(t) ==
  /\ pc[t] = "acb_insert"
  /\ m_CommandBuffers' = InsertAll(m_CommandBuffers, loc[t].arg.pool, loc[t].arg.hs)
  /\ hist' = [ hist EXCEPT !.live.m_CommandBuffers = @ \cup Range(loc[t].arg.hs) ]
  /\ UnlockAll
  /\ loc' = [ loc EXCEPT ![t] = IdleLoc ]
  /\ Return(t)
  /\ UNCHANGED << m_DataMutex, allocLock, m_Config, Objects, m_DataAggregator, m_Data, Memory,
                  m_CurrentFrame, GpuVars, frameStats, calls >>

\* What the history keeps of a freed command buffer: its data at the time
\* and the frame that was being accumulated.
FreedEntry(st, h) ==
  [ frame |-> st.frame, cb |-> h, snap |-> RecorderGetData(st.cbs[h]) ]

\* A FreeCommandBuffer that removes the recorder and hands nothing to the
\* aggregator.
FreeCommandBuffer_Drop(st, h) ==
  [ st EXCEPT !.cbs[h] = NoCB, !.freed = Append(@, FreedEntry(st, h)) ]

\* FreeCommandBuffer: the recorder's data is handed to the aggregator, then
\* the recorder leaves the registry.  st = [agg, cbs, freed, frame].
FreeCommandBuffer(st, h) ==
  [ st EXCEPT !.agg = AppendData(@, h, RecorderGetData(st.cbs[h])),
              !.cbs[h] = NoCB,
              !.freed = Append(@, FreedEntry(st, h)) ]

RECURSIVE FreeEach(_, _)
FreeEach(st, hs) ==
  IF hs = << >> THEN st ELSE FreeEach(FreeCommandBuffer(st, Head(hs)), Tail(hs))

\* A scan that does not compare the pool: every registered command buffer.
PoolMembers_Any(cbs, pool) == { h \in Handles : cbs[h] # NoCB }

\* The registered command buffers whose GetCommandPool() is `pool`.
PoolMembers(cbs, pool) ==
  { h \in Handles : cbs[h] # NoCB /\ cbs[h].m_CommandPool = pool }

Registered == { h \in Handles : m_CommandBuffers[h] # NoCB }
FreeState ==
  [ agg |-> m_DataAggregator, cbs |-> m_CommandBuffers, freed |-> hist.freed,
    frame |-> m_CurrentFrame + 1 ]

\* FreeCommandBuffers( count, pCommandBuffers )
FreeCommandBuffers_Enter(t, hs) ==
  /\ pc[t] = "idle"
  /\ Range(hs) \subseteq Registered \ (OnGpu \cup InSubmitCall)
  /\ LockAll(t)
  /\ loc' = [ loc EXCEPT ![t] = [ IdleLoc EXCEPT !.arg = hs ] ]
  /\ Goto(t, "fcb_free")
  /\ UNCHANGED << m_DataMutex, allocLock, m_Config, Objects, m_CommandBuffers, m_DataAggregator,
                  m_Data, Memory, m_CurrentFrame, GpuVars, frameStats, calls, hist >>

FreeCommandBuffers_Free(t) ==
  /\ pc[t] = "fcb_free"
  /\ LET r == FreeEach(FreeState, loc[t].arg)
     IN  /\ m_DataAggregator' = r.agg
         /\ m_CommandBuffers' = r.cbs
         /\ hist' = [ hist EXCEPT !.freed = r.freed,
                                  !.live.m_CommandBuffers = @ \ Range(loc[t].arg) ]
  /\ UnlockAll
  /\ loc' = [ loc EXCEPT ![t] = IdleLoc ]
  /\ Return(t)
  /\ UNCHANGED << m_DataMutex, allocLock, m_Config, Objects, m_Data, Memory, m_CurrentFrame,
                  GpuVars, frameStats, calls >>

\* FreeCommandBuffer( commandBuffer ) for any handle.  The iterator that
\* unsafe_find returns is used without a comparison with end(): for a
\* handle that is not registered, it->second is a read through the end
\* iterator, whose behaviour is undefined.  What the call does then is one
\* of: nothing that shows in the profiler's state; AppendData with whatever
\* the read yielded (an empty tree, or the data of a registered recorder);
\* the end of the process.
IndeterminateData(st, h) ==
  { [ m_Handle |-> h, regions |-> << >> ] }
    \cup { RecorderGetData(st.cbs[g]) : g \in { f \in Handles : st.cbs[f] # NoCB } }

UndefinedOutcomes(st, h) ==
  { [ kind |-> "untouched", snap |-> NoData ], [ kind |-> "terminated", snap |-> NoData ] }
    \cup { [ kind |-> "appended", snap |-> d ] : d \in IndeterminateData(st, h) }

FreeCommandBuffer_Found(st, h, undefined) ==
  IF st.cbs[h] # NoCB THEN FreeCommandBuffer(st, h)
  ELSE IF undefined.kind = "appended"
  THEN [ st EXCEPT !.agg = AppendData(@, h, undefined.snap) ]
  ELSE st

RECURSIVE FreeEachFound(_, _, _)
FreeEachFound(st, hs, undefined) ==
  IF hs = << >> THEN st
  ELSE FreeEachFound(FreeCommandBuffer_Found(st, Head(hs), undefined), Tail(hs), undefined)

\* The handles of hs that are not registered when their turn comes.
RECURSIVE NotFound(_, _)
NotFound(cbs, hs) ==
  IF hs = << >> THEN {}
  ELSE IF cbs[Head(hs)] = NoCB THEN { Head(hs) } \cup NotFound(cbs, Tail(hs))
  ELSE NotFound([ cbs EXCEPT ![Head(hs)] = NoCB ], Tail(hs))

\* FreeCommandBuffers( count, pCommandBuffers ) with handles of any kind.
FreeCommandBuffers_EnterAny(t, hs) ==
  /\ pc[t] = "idle" /\ calls.frees < MaxFrees
  /\ Range(hs) \cap (OnGpu \cup InSubmitCall) = {}
  /\ LockAll(t)
  /\ loc' = [ loc EXCEPT ![t] = [ IdleLoc EXCEPT !.arg = hs ] ]
  /\ Count("frees") /\ Goto(t, "fcb_any")
  /\ UNCHANGED << m_DataMutex, allocLock, m_Config, Objects, m_CommandBuffers, m_DataAggregator,
                  m_Data, Memory, m_CurrentFrame, GpuVars, frameStats, hist >>

FreeCommandBuffers_FreeAny(t) ==
  /\ pc[t] = "fcb_any"
  /\ \E h \in Handles : \E undefined \in UndefinedOutcomes(FreeState, h) :
       IF undefined.kind = "terminated" /\ NotFound(m_CommandBuffers, loc[t].arg) # {}
       THEN /\ pc' = [ u \in Threads |-> "terminated" ]
            /\ UNCHANGED << loc, Mutexes, m_Config, Objects, m_CommandBuffers, m_DataAggregator,
                            m_Data, Memory, m_CurrentFrame, GpuVars, frameStats, calls, hist >>
       ELSE LET r == FreeEachFound(FreeState, loc[t].arg, undefined)
            IN  /\ m_DataAggregator' = r.agg
                /\ m_CommandBuffers' = r.cbs
                /\ hist' = [ hist EXCEPT !.freed = r.freed,
                                         !.live.m_CommandBuffers = @ \ Range(loc[t].arg) ]
                /\ UnlockAll
                /\ loc' = [ loc EXCEPT ![t] = IdleLoc ]
                /\ Return(t)
                /\ UNCHANGED << m_DataMutex, allocLock, m_Config, Objects, m_Data, Memory,
                                m_CurrentFrame, GpuVars, frameStats, calls >>

\* A pool-wide free that takes the two mutexes and not the registry lock.
FreeCommandPool_EnterUnlocked(t, pool) ==
  /\ pc[t] = "idle"
  /\ PoolMembers(m_CommandBuffers, pool) \cap (OnGpu \cup InSubmitCall) = {}
  /\ m_SubmitMutex = NoThread /\ m_PresentMutex = NoThread
  /\ m_SubmitMutex' = t /\ m_PresentMutex' = t /\ UNCHANGED cbLock
  /\ loc' = [ loc EXCEPT ![t] = [ IdleLoc EXCEPT !.arg = pool ] ]
  /\ Goto(t, "fcp_free")
  /\ UNCHANGED << m_DataMutex, allocLock, m_Config, Objects, m_CommandBuffers, m_DataAggregator,
                  m_Data, Memory, m_CurrentFrame, GpuVars, frameStats, calls, hist >>

\* FreeCommandBuffers( commandPool )
FreeCommandPool_Enter(t, pool) ==
  /\ pc[t] = "idle"
  /\ PoolMembers(m_CommandBuffers, pool) \cap (OnGpu \cup InSubmitCall) = {}
  /\ LockAll(t)
  /\ loc' = [ loc EXCEPT ![t] = [ IdleLoc EXCEPT !.arg = pool ] ]
  /\ Goto(t, "fcp_free")
  /\ UNCHANGED << m_DataMutex, allocLock, m_Config, Objects, m_CommandBuffers, m_DataAggregator,
                  m_Data, Memory, m_CurrentFrame, GpuVars, frameStats, calls, hist >>

\* One iteration of the scan that finds a wrapper of the pool: the wrapper
\* is freed and the scan goes on, the locks still held.
FreeCommandPool_Step(t) ==
  /\ pc[t] = "fcp_free"
  /\ \E h \in PoolMembers(m_CommandBuffers, loc[t].arg) :
       LET r == FreeCommandBuffer(FreeState, h)
       IN  /\ m_DataAggregator' = r.agg
           /\ m_CommandBuffers' = r.cbs
           /\ hist' = [ hist EXCEPT !.freed = r.freed,
                                    !.live.m_CommandBuffers = @ \ { h } ]
  /\ UNCHANGED << pc, loc, Mutexes, m_Config, Objects, m_Data, Memory, m_CurrentFrame,
                  GpuVars, frameStats, calls >>

\* The map is scanned (in the map's own order) and each wrapper of the
\* pool is freed.
FreeCommandPool_Free(t) ==
  /\ pc[t] = "fcp_free"
  /\ \E hs \in CbLists \cup { << >> } :
       /\ Range(hs) = PoolMembers(m_CommandBuffers, loc[t].arg)
       /\ LET r == FreeEach(FreeState, hs)
          IN  /\ m_DataAggregator' = r.agg
              /\ m_CommandBuffers' = r.cbs
              /\ hist' = [ hist EXCEPT !.freed = r.freed,
                                       !.live.m_CommandBuffers = @ \ Range(hs),
                                       !.poolFree = [ pool |-> loc[t].arg,
                                                      removed |-> Range(hs),
                                                      kept |-> Registered \ Range(hs) ] ]
  /\ UnlockAll
  /\ loc' = [ loc EXCEPT ![t] = IdleLoc ]
  /\ Return(t)
  /\ UNCHANGED << m_DataMutex, allocLock, m_Config, Objects, m_Data, Memory, m_CurrentFrame,
                  GpuVars, frameStats, calls >>

(***************************************************************************)
(* Intercepted command-buffer commands.  Each looks the recorder up in the *)
(* registry (which takes the registry lock for the lookup) and calls it.   *)
(***************************************************************************)
Recording(h) == m_CommandBuffers[h] # NoCB /\ m_CommandBuffers[h].state = "Recording"
Room(h, n) == Len(m_CommandBuffers[h].regions) + n <= MaxRegions
InRenderPass(h) ==
  /\ m_CommandBuffers[h] # NoCB
  /\ \E i \in Range(m_CommandBuffers[h].stack) :
        m_CommandBuffers[h].regions[i].kind = "RenderPass"
\* The kind of the innermost open region of h's recording.
OpenKind(h) == IF m_CommandBuffers[h] = NoCB THEN "None" ELSE TopKind(m_CommandBuffers[h])

\* What a recording command leaves alone; the history notes the command,
\* and whether a recording was begun while another one was in progress.
RecordFrame(h, cmd) ==
  /\ hist' = [ hist EXCEPT
       !.cmds[h] = IF cmd = << "Begin" >> THEN << >> ELSE Append(@, cmd),
       !.overlap = @ \/ (cmd = << "Begin" >> /\ \E g \in Handles \ {h} : Recording(g)) ]
  /\ UNCHANGED << pc, loc, Mutexes, m_Config, Objects, m_DataAggregator, m_Data, Memory,
                  m_CurrentFrame, GpuVars >>

\* Begin of a recorder whose query pool cannot be allocated: nothing is
\* reset, the status is the error.
RecorderBeginStatus == IF deviceMemoryExhausted THEN "ResourceExhausted" ELSE "Ok"

\* What the next layer's vkBeginCommandBuffer may return.
BeginResults ==
  IF deviceMemoryExhausted THEN { VK_SUCCESS, VK_ERROR_OUT_OF_DEVICE_MEMORY } ELSE { VK_SUCCESS }

\* A vkBeginCommandBuffer that returns the recorder's error when Begin fails.
BeginCommandBuffer_Propagating(t, h) ==
  /\ pc[t] = "idle" /\ cbLock = NoThread /\ calls.recordings < MaxRecordings
  /\ m_CommandBuffers[h] # NoCB /\ m_CommandBuffers[h].state # "Recording"
  /\ h \notin OnGpu \cup InSubmitCall
  /\ Count("recordings")
  /\ IF RecorderBeginStatus = "Ok"
     THEN /\ m_CommandBuffers' = [ m_CommandBuffers EXCEPT ![h] = RecorderBegin(@) ]
          /\ RecordFrame(h, << "Begin" >>) /\ UNCHANGED frameStats
     ELSE /\ hist' = [ hist EXCEPT !.begin = [ cb |-> h, status |-> RecorderBeginStatus,
                                               returned |-> VK_ERROR_OUT_OF_DEVICE_MEMORY ] ]
          /\ UNCHANGED << pc, loc, Mutexes, m_Config, Objects, m_CommandBuffers,
                          m_DataAggregator, m_Data, Memory, m_CurrentFrame, GpuVars,
                          frameStats >>

\* vkBeginCommandBuffer: dd.Profiler.BeginCommandBuffer( commandBuffer ),
\* whose outcome is not looked at, then the next layer's
\* vkBeginCommandBuffer, whose result is returned.
BeginCommandBuffer(t, h) ==
  /\ pc[t] = "idle" /\ cbLock = NoThread /\ calls.recordings < MaxRecordings
  /\ m_CommandBuffers[h] # NoCB /\ m_CommandBuffers[h].state # "Recording"
  /\ h \notin OnGpu \cup InSubmitCall
  /\ Count("recordings")
  /\ IF RecorderBeginStatus = "Ok"
     THEN /\ m_CommandBuffers' = [ m_CommandBuffers EXCEPT ![h] = RecorderBegin(@) ]
          /\ RecordFrame(h, << "Begin" >>) /\ UNCHANGED frameStats
     ELSE /\ \E result \in BeginResults :
               hist' = [ hist EXCEPT !.begin = [ cb |-> h, status |-> RecorderBeginStatus,
                                                 returned |-> result ] ]
          /\ UNCHANGED << pc, loc, Mutexes, m_Config, Objects, m_CommandBuffers,
                          m_DataAggregator, m_Data, Memory, m_CurrentFrame, GpuVars,
                          frameStats >>

\* An EndCommandBuffer that closes the innermost open region only.
EndCommandBuffer_InnermostOnly(t, h) ==
  /\ pc[t] = "idle" /\ cbLock = NoThread
  /\ Recording(h)
  /\ m_CommandBuffers' =
       [ m_CommandBuffers EXCEPT
           ![h] = Issue([ PopRegion(@) EXCEPT !.state = "Ended" ], "EndCommandBuffer") ]
  /\ RecordFrame(h, << "End" >>) /\ UNCHANGED << frameStats, calls >>

\* Profiler.EndCommandBuffer, then the command; whatever is open.
EndCommandBuffer_Any(t, h) ==
  /\ pc[t] = "idle" /\ cbLock = NoThread
  /\ Recording(h)
  /\ m_CommandBuffers' =
       [ m_CommandBuffers EXCEPT ![h] = Issue(RecorderEnd(@), "EndCommandBuffer") ]
  /\ RecordFrame(h, << "End" >>) /\ UNCHANGED << frameStats, calls >>

\* vkEndCommandBuffer as the application may call it: outside a render pass.
EndCommandBuffer(t, h) == ~InRenderPass(h) /\ EndCommandBuffer_Any(t, h)

\* Profiler.BeginRenderPass, then the command.
CmdBeginRenderPass(t, h, rp) ==
  /\ pc[t] = "idle" /\ cbLock = NoThread
  /\ Recording(h) /\ ~InRenderPass(h) /\ Room(h, 2)
  /\ m_CommandBuffers' =
       [ m_CommandBuffers EXCEPT
           ![h] = Issue(RecorderBeginRenderPass(@, rp), "CmdBeginRenderPass") ]
  /\ RecordFrame(h, << "BeginRenderPass", rp >>) /\ UNCHANGED << frameStats, calls >>

\* The command, then Profiler.EndRenderPass.
CmdEndRenderPass(t, h) ==
  /\ pc[t] = "idle" /\ cbLock = NoThread
  /\ Recording(h) /\ InRenderPass(h)
  /\ m_CommandBuffers' =
       [ m_CommandBuffers EXCEPT
           ![h] = RecorderEndRenderPass(Issue(@, "CmdEndRenderPass")) ]
  /\ RecordFrame(h, << "EndRenderPass" >>) /\ UNCHANGED << frameStats, calls >>

\* A CmdBindPipeline whose region is opened under the pipeline region
\* that is open.
CmdBindPipeline_Stacking(t, h, p) ==
  /\ pc[t] = "idle" /\ cbLock = NoThread
  /\ Recording(h) /\ Room(h, 1)
  /\ m_CommandBuffers' =
       [ m_CommandBuffers EXCEPT
           ![h] = PushRegion(Issue(@, "CmdBindPipeline"), "Pipeline", p) ]
  /\ RecordFrame(h, << "BindPipeline", p >>) /\ UNCHANGED << frameStats, calls >>

\* The command, then Profiler.BindPipeline.
CmdBindPipeline(t, h, p) ==
  /\ pc[t] = "idle" /\ cbLock = NoThread
  /\ Recording(h) /\ Room(h, 1)
  /\ m_CommandBuffers' =
       [ m_CommandBuffers EXCEPT
           ![h] = RecorderBindPipeline(Issue(@, "CmdBindPipeline"), p) ]
  /\ RecordFrame(h, << "BindPipeline", p >>) /\ UNCHANGED << frameStats, calls >>

\* A CmdDraw that sends the draw down the chain before PreDraw.
CmdDraw_DrawFirst(t, h) ==
  /\ pc[t] = "idle" /\ cbLock = NoThread
  /\ Recording(h) /\ Room(h, 1)
  /\ frameStats' = [ frameStats EXCEPT !.drawCount = @ + 1 ]
  /\ m_CommandBuffers' =
       [ m_CommandBuffers EXCEPT
           ![h] = RecorderPostDraw(RecorderPreDraw(Issue(@, "CmdDraw"))) ]
  /\ RecordFrame(h, << "Draw" >>) /\ UNCHANGED calls

\* drawCount++; PreDraw; the draw itself; PostDraw.
CmdDraw(t, h) ==
  /\ pc[t] = "idle" /\ cbLock = NoThread
  /\ Recording(h) /\ Room(h, 1)
  /\ frameStats' = [ frameStats EXCEPT !.drawCount = @ + 1 ]
  /\ m_CommandBuffers' =
       [ m_CommandBuffers EXCEPT
           ![h] = RecorderPostDraw(Issue(RecorderPreDraw(@), "CmdDraw")) ]
  /\ RecordFrame(h, << "Draw" >>) /\ UNCHANGED calls

(***************************************************************************)
(* Memory tracking.                                                        *)
(***************************************************************************)
AddTo(c, size) ==
  [ m_AllocationCount |-> c.m_AllocationCount + 1,
    m_AllocationSize |-> c.m_AllocationSize + size ]
SubFrom(c, size) ==
  [ m_AllocationCount |-> c.m_AllocationCount - 1,
    m_AllocationSize |-> c.m_AllocationSize - size ]

MemoryFrame ==
  UNCHANGED << m_SubmitMutex, m_PresentMutex, m_DataMutex, cbLock, m_Config, Objects,
               m_CommandBuffers, m_DataAggregator, m_Data, m_CurrentFrame,
               GpuVars, frameStats, hist >>

\* The allocation is registered and its heap's and type's counters updated.
AllocateMemory_Any(t, m, type, size) ==
  /\ pc[t] = "idle"
  /\ allocLock = NoThread /\ m_Allocations[m] = NoAlloc
  /\ allocLock' = t
  /\ m_Allocations' = [ m_Allocations EXCEPT ![m] =
                          [ memoryTypeIndex |-> type, allocationSize |-> size ] ]
  /\ m_MemoryData' = [ m_MemoryData EXCEPT !.m_Heaps[HeapIndex(type)] = AddTo(@, size),
                                           !.m_Types[type] = AddTo(@, size) ]
  /\ loc' = [ loc EXCEPT ![t] = [ IdleLoc EXCEPT !.arg = size ] ]
  /\ Count("allocs") /\ Goto(t, "am_total")
  /\ MemoryFrame

\* AllocateMemory, at most MaxAllocs times.
AllocateMemory_Enter(t, m, type, size) ==
  calls.allocs < MaxAllocs /\ AllocateMemory_Any(t, m, type, size)

\* The totals are updated and the lock released.
AllocateMemory_Total(t) ==
  /\ pc[t] = "am_total"
  /\ m_MemoryData' =
       [ m_MemoryData EXCEPT !.m_TotalAllocationCount = @ + 1,
                             !.m_TotalAllocationSize = @ + loc[t].arg ]
  /\ allocLock' = NoThread
  /\ loc' = [ loc EXCEPT ![t] = IdleLoc ]
  /\ Return(t)
  /\ MemoryFrame /\ UNCHANGED << m_Allocations, calls >>

\* FreeMemory of a registered allocation: heap and type counters first.
FreeMemory_Enter(t, m) ==
  /\ pc[t] = "idle"
  /\ allocLock = NoThread /\ m_Allocations[m] # NoAlloc
  /\ allocLock' = t
  /\ LET a == m_Allocations[m]
     IN  m_MemoryData' =
           [ m_MemoryData EXCEPT
               !.m_Heaps[HeapIndex(a.memoryTypeIndex)] = SubFrom(@, a.allocationSize),
               !.m_Types[a.memoryTypeIndex] = SubFrom(@, a.allocationSize) ]
  /\ loc' = [ loc EXCEPT ![t] = [ IdleLoc EXCEPT !.arg = m ] ]
  /\ Goto(t, "fm_total")
  /\ MemoryFrame /\ UNCHANGED << m_Allocations, calls >>

\* FreeMemory of a handle that is not registered: unsafe_find yields end()
\* and nothing is updated; the lock is taken and released.
FreeMemory_NotFound(t, m) ==
  /\ pc[t] = "idle"
  /\ allocLock = NoThread /\ m_Allocations[m] = NoAlloc
  /\ allocLock' = t
  /\ loc' = [ loc EXCEPT ![t] = [ IdleLoc EXCEPT !.arg = m ] ]
  /\ Goto(t, "fm_none")
  /\ MemoryFrame /\ UNCHANGED << Memory, calls >>

FreeMemory_Return(t) ==
  /\ pc[t] = "fm_none"
  /\ allocLock' = NoThread
  /\ loc' = [ loc EXCEPT ![t] = IdleLoc ]
  /\ Return(t)
  /\ MemoryFrame /\ UNCHANGED << Memory, calls >>

\* A FreeMemory that leaves the total size as it is.
FreeMemory_Total_KeepSize(t) ==
  /\ pc[t] = "fm_total"
  /\ m_MemoryData' = [ m_MemoryData EXCEPT !.m_TotalAllocationCount = @ - 1 ]
  /\ m_Allocations' = [ m_Allocations EXCEPT ![loc[t].arg] = NoAlloc ]
  /\ allocLock' = NoThread
  /\ loc' = [ loc EXCEPT ![t] = IdleLoc ]
  /\ Return(t)
  /\ MemoryFrame /\ UNCHANGED calls

\* The totals are updated, the entry removed and the lock released.
FreeMemory_Total(t) ==
  /\ pc[t] = "fm_total"
  /\ LET a == m_Allocations[loc[t].arg]
     IN  m_MemoryData' =
           [ m_MemoryData EXCEPT !.m_TotalAllocationCount = @ - 1,
                                 !.m_TotalAllocationSize = @ - a.allocationSize ]
  /\ m_Allocations' = [ m_Allocations EXCEPT ![loc[t].arg] = NoAlloc ]
  /\ allocLock' = NoThread
  /\ loc' = [ loc EXCEPT ![t] = IdleLoc ]
  /\ Return(t)
  /\ MemoryFrame /\ UNCHANGED calls

(***************************************************************************)
(* Workload 1: a render thread allocates one command buffer, records it    *)
(* (empty recordings), submits and presents; a second thread allocates and *)
(* frees device memory; a third one reads the published data.              *)
(***************************************************************************)
FinishFrame(t) ==
  \/ FinishFrame_Enter(t)
  \/ FinishFrame_WaitIdle(t)
  \/ FinishFrame_Aggregate(t)
  \/ FinishFrame_LockData(t)
  \/ FinishFrame_Assign(t)
  \/ FinishFrame_AttachMemory(t)
  \/ FinishFrame_AttachCPU(t)
  \/ FinishFrame_Reset(t)

PostSubmitCommandBuffers(t) ==
  \/ PostSubmit_Enter(t)
  \/ PostSubmit_Wait(t)
  \/ PostSubmit_Build(t)
  \/ PostSubmit_Final(t)

GetData(t) ==
  \/ GetData_Lock(t)
  \/ GetData_Copy(t)
  \/ GetData_Return(t)

Next ==
  \/ AllocateCommandBuffers_Enter("t1", "poolA", << "cb1" >>)
  \/ AllocateCommandBuffers_Insert("t1")
  \/ BeginCommandBuffer("t1", "cb1")
  \/ EndCommandBuffer("t1", "cb1")
  \/ QueueSubmit("t1", << << "cb1" >> >>)
  \/ PostSubmitCommandBuffers("t1")
  \/ FinishFrame("t1")
  \/ \E type \in MemoryTypes : AllocateMemory_Enter("t2", "m1", type, 1)
  \/ AllocateMemory_Total("t2")
  \/ FreeMemory_Enter("t2", "m1")
  \/ FreeMemory_Total("t2")
  \/ GetData("t3")
  \/ GpuExecute

Spec == Init /\ [][Next]_vars

\* The frames that were completely published so far, the initial one included.
CompleteFrames == {InitialData} \cup Range(hist.published)

\* C1: whatever the other threads do, the value GetData returned is exactly
\* one completely published frame: the aggregated data together with the
\* memory and CPU statistics FinishFrame attached to that same frame (or
\* the initial empty frame).
C1_GetDataReturnsPublishedFrame ==
  \A t \in Threads :
    (pc[t] = "idle" /\ loc[t].ret # NoRet) => loc[t].ret \in CompleteFrames

\* C2: a thread blocked in a GPU wait (the device-idle wait of FinishFrame,
\* the fence wait of PostSubmit) does not hold the data lock; the data lock
\* is held only for the copy in GetData and the assignment in FinishFrame.
C2_NoDataLockAcrossGpuWait ==
  \A t \in Threads :
    /\ pc[t] \in {"ff_wait", "ps_wait"} => m_DataMutex # t
    /\ m_DataMutex = t => pc[t] \in {"gd_copy", "gd_copy_cpu", "ff_assign"}

\* A reader copies the published frame while another thread is blocked in
\* a GPU wait.
C2_Witness ==
  \E t \in Threads, u \in Threads :
    /\ \/ pc[t] = "ff_wait" /\ gpuQueue # << >>
       \/ pc[t] = "ps_wait" /\ m_SubmitFence = "unsignaled"
    /\ pc[u] = "gd_copy_cpu" /\ m_DataMutex = u

(***************************************************************************)
(* Workload 2: a render thread allocates a command buffer, records it (at  *)
(* most one draw), submits and presents; a second thread frees command     *)
(* buffers, one by one or a pool at a time.                                *)
(***************************************************************************)
FewRegions(h) == m_CommandBuffers[h] # NoCB /\ Len(m_CommandBuffers[h].regions) < 2

NextFree ==
  \/ AllocateCommandBuffers_Enter("t1", "poolA", << "cb1" >>)
  \/ AllocateCommandBuffers_Insert("t1")
  \/ BeginCommandBuffer("t1", "cb1")
  \/ FewRegions("cb1") /\ CmdDraw("t1", "cb1")
  \/ EndCommandBuffer("t1", "cb1")
  \/ QueueSubmit("t1", << << "cb1" >> >>)
  \/ PostSubmitCommandBuffers("t1")
  \/ FinishFrame("t1")
  \/ FreeCommandBuffers_Enter("t2", << "cb1" >>)
  \/ FreeCommandBuffers_Free("t2")
  \/ \E pool \in Pools : FreeCommandPool_Enter("t2", pool)
  \/ FreeCommandPool_Free("t2")
  \/ GpuExecute

SpecFree == Init /\ [][NextFree]_vars

\* The command-buffer entries of a frame's submit batches, in order.
BatchEntries(b) == Flatten(b.m_Submits)
EntriesOf(d) == Flatten([ i \in 1..Len(d.m_Submits) |-> BatchEntries(d.m_Submits[i]) ])

\* C3: the data of a command buffer freed before the end of its frame was
\* handed to the aggregator when the wrapper left the registry, and the
\* frame published by the FinishFrame that ends that frame contains it:
\* it is part of what the frame accumulated, and the frame's entries of
\* that command buffer carry data.
C3_EarlyFreeKeepsData ==
  \A i \in 1..Len(hist.freed) :
    LET f == hist.freed[i]
    IN  IF f.frame > Len(hist.published)
        THEN f.snap \in Range(m_DataAggregator.folded)
        ELSE LET d == hist.published[f.frame]
             IN  /\ f.snap \in Range(d.folded)
                 /\ \A k \in 1..Len(EntriesOf(d)) :
                      EntriesOf(d)[k].cb = f.cb => EntriesOf(d)[k].data # NoData

\* A command buffer that was submitted and executed is freed before the
\* frame ends, and the published frame holds its resolved data.
C3_Witness ==
  \E i \in 1..Len(hist.freed) :
    LET f == hist.freed[i]
    IN  /\ f.frame <= Len(hist.published)
        /\ f.snap.regions # << >> /\ IsResolved(f.snap.regions[1])
        /\ \E k \in 1..Len(EntriesOf(hist.published[f.frame])) :
             EntriesOf(hist.published[f.frame])[k].data = f.snap

(***************************************************************************)
(* Workload 3: the registry alone.  Command buffers are allocated from two *)
(* pools, recorded, and freed one by one or a pool at a time.              *)
(***************************************************************************)
NextPool ==
  \/ \E pool \in Pools, hs \in CbLists : AllocateCommandBuffers_Enter("t1", pool, hs)
  \/ AllocateCommandBuffers_Insert("t1")
  \/ \E h \in Handles : BeginCommandBuffer("t1", h)
  \/ \E h \in Handles : FewRegions(h) /\ CmdDraw("t1", h)
  \/ \E h \in Handles : EndCommandBuffer("t1", h)
  \/ \E hs \in CbLists : FreeCommandBuffers_Enter("t2", hs)
  \/ FreeCommandBuffers_Free("t2")
  \/ \E pool \in Pools : FreeCommandPool_Enter("t2", pool)
  \/ FreeCommandPool_Free("t2")

SpecPool == Init /\ [][NextPool]_vars

\* C4: FreeCommandBuffers(pool) removes every wrapper whose pool is `pool`
\* and leaves every other wrapper registered and unchanged, so that at()
\* fails afterwards exactly for the handles of that pool.
C4_PoolFreeRemovesExactlyPool ==
  [][ \A t \in Threads :
        (pc[t] = "fcp_free" /\ pc'[t] = "idle") =>
          \A h \in Handles :
            m_CommandBuffers'[h] =
              IF m_CommandBuffers[h] # NoCB /\ m_CommandBuffers[h].m_CommandPool = loc[t].arg
              THEN NoCB ELSE m_CommandBuffers[h] ]_vars

\* A pool was freed that held a wrapper, while a wrapper of the other pool
\* stays registered.
C4_Witness ==
  /\ hist.poolFree.removed # {} /\ hist.poolFree.kept # {}
  /\ \A t \in Threads : pc[t] = "idle"
  /\ hist.poolFree.kept \subseteq Registered

(***************************************************************************)
(* Workload 4: one thread records one command buffer (a render pass, the   *)
(* pipelines bound inside it, the draws issued with a pipeline bound),     *)
(* submits it and presents.                                                *)
(***************************************************************************)
NextFrame ==
  \/ AllocateCommandBuffers_Enter("t1", "poolA", << "cb1" >>)
  \/ AllocateCommandBuffers_Insert("t1")
  \/ BeginCommandBuffer("t1", "cb1")
  \/ \E rp \in RenderPassHandles : CmdBeginRenderPass("t1", "cb1", rp)
  \/ \E p \in PipelineHandles : InRenderPass("cb1") /\ CmdBindPipeline("t1", "cb1", p)
  \/ OpenKind("cb1") = "Pipeline" /\ CmdDraw("t1", "cb1")
  \/ CmdEndRenderPass("t1", "cb1")
  \/ EndCommandBuffer("t1", "cb1")
  \/ QueueSubmit("t1", << << "cb1" >> >>)
  \/ PostSubmitCommandBuffers("t1")
  \/ FinishFrame("t1")
  \/ GpuExecute

SpecFrame == Init /\ [][NextFrame]_vars

\* C5: Aggregate() is idempotent.  Whatever was appended so far, in either
\* synchronization mode, a second Aggregate() right after a first one leaves
\* the value of GetAggregatedData() as the first one left it.
C5_AggregateIdempotent ==
  LET once == Aggregate(m_DataAggregator, m_CommandBuffers)
      twice == Aggregate(once.agg, once.cbs)
  IN  GetAggregatedData(twice.agg) = GetAggregatedData(once.agg)

\* A first Aggregate() has data to fold: a submitted command buffer with a
\* resolved pipeline region is pending when PostSubmit (submit mode) or
\* FinishFrame (present mode) is about to aggregate.
C5_Pending ==
  \E k \in 1..Len(EntriesOf(m_DataAggregator)) :
    /\ EntriesOf(m_DataAggregator)[k].pending
    /\ Aggregate(m_DataAggregator, m_CommandBuffers).agg.m_TopPipelines # << >>
C5_Witness ==
  /\ C5_Pending
  /\ \E t \in Threads : pc[t] \in {"ps_final", "ff_aggregate"}

\* The commands of the end-to-end scenario, after Begin.
ScenarioCommands ==
  << << "BeginRenderPass", "RP1" >>, << "BindPipeline", "P1" >>, << "Draw" >>,
     << "EndRenderPass" >>, << "End" >> >>

\* The submissions that belong to the frame FinishFrame is publishing.
SubmittedThisFrame ==
  SelectSeq(hist.submitted, LAMBDA e : e.frame = m_CurrentFrame)

\* FinishFrame has just published a frame in which cb1, recorded with the
\* scenario's commands, was submitted once, nothing else was, and no
\* recording was begun since.
ScenarioFrame ==
  /\ \E t \in Threads : pc[t] = "ff_reset"
  /\ Len(SubmittedThisFrame) = 1
  /\ SubmittedThisFrame[1].cbs = << "cb1" >>
  /\ SubmittedThisFrame[1].cmds["cb1"] = ScenarioCommands
  /\ SubmittedThisFrame[1].rec = calls.recordings

\* The indices of the regions of kind k in a snapshot.
OfKind(snap, k) == { i \in DOMAIN snap.regions : snap.regions[i].kind = k }

\* One render pass, containing (through its subpass) one pipeline region of
\* P1, containing one drawcall.
ScenarioTree(snap) ==
  \E rp \in OfKind(snap, "RenderPass"), p \in OfKind(snap, "Pipeline"),
     d \in OfKind(snap, "Drawcall") :
    /\ OfKind(snap, "RenderPass") = {rp}
    /\ OfKind(snap, "Pipeline") = {p}
    /\ OfKind(snap, "Drawcall") = {d}
    /\ snap.regions[p].handle = "P1"
    /\ snap.regions[d].parent = p
    /\ snap.regions[snap.regions[p].parent].kind = "Subpass"
    /\ snap.regions[snap.regions[p].parent].parent = rp

\* C8: the end-to-end scenario.  The frame published for it has draw count
\* 1, exactly one top pipeline (P1), and one submit batch of one submit of
\* one command buffer with one render pass, one pipeline region and one
\* drawcall, in either synchronization mode.
C8_EndToEndScenario ==
  ScenarioFrame =>
    /\ m_Data.m_Stats.m_TotalDrawCount = 1
    /\ Len(m_Data.m_TopPipelines) = 1
    /\ m_Data.m_TopPipelines[1].m_Handle = "P1"
    /\ Len(m_Data.m_Submits) = 1
    /\ Len(m_Data.m_Submits[1].m_Submits) = 1
    /\ Len(m_Data.m_Submits[1].m_Submits[1]) = 1
    /\ m_Data.m_Submits[1].m_Submits[1][1].cb = "cb1"
    /\ ScenarioTree(m_Data.m_Submits[1].m_Submits[1][1].data)

C8_Witness == ScenarioFrame /\ m_Data.m_Stats.m_TotalDrawCount = 1

(***************************************************************************)
(* Workload 5: the aggregator alone.  Snapshots holding one pipeline       *)
(* region each are appended with AppendData within one frame.              *)
(***************************************************************************)
\* The snapshot of a recording with one pipeline region of d ticks.
PipelineSnapshot(h, p, d) ==
  [ m_Handle |-> h,
    regions |-> << [ kind |-> "CommandBuffer", handle |-> h, parent |-> 0,
                     m_BeginTimestamp |-> 0, m_EndTimestamp |-> d ],
                   [ kind |-> "Pipeline", handle |-> p, parent |-> 1,
                     m_BeginTimestamp |-> 0, m_EndTimestamp |-> d ] >> ]

AppendPipelineData(h, p, d) ==
  /\ Len(m_DataAggregator.folded) < MaxAppends
  /\ m_DataAggregator' = AppendData(m_DataAggregator, h, PipelineSnapshot(h, p, d))
  /\ UNCHANGED << pc, loc, Mutexes, m_Config, Objects, m_CommandBuffers, m_Data, Memory,
                  m_CurrentFrame, GpuVars, frameStats, calls, hist >>

NextTop == \E p \in PipelineHandles, d \in 0..MaxDuration : AppendPipelineData("cb1", p, d)

SpecTop == Init /\ [][NextTop]_vars

\* A sequence of numbers in descending order (insertion sort).
RECURSIVE InsertDesc(_, _)
InsertDesc(s, x) ==
  IF s = << >> THEN << x >>
  ELSE IF x >= Head(s) THEN << x >> \o s
       ELSE << Head(s) >> \o InsertDesc(Tail(s), x)
RECURSIVE SortDesc(_)
SortDesc(s) == IF s = << >> THEN << >> ELSE InsertDesc(SortDesc(Tail(s)), Head(s))

TicksOf(es) == [ i \in 1..Len(es) |-> es[i].ticks ]
FirstN(s, n) == SubSeq(s, 1, IF n < Len(s) THEN n ELSE Len(s))

\* The pipeline entries appended in this frame, in order.
AppendedPipelines ==
  Flatten([ i \in 1..Len(m_DataAggregator.folded) |->
              SnapshotPipelines(m_DataAggregator.folded[i]) ])

\* C6: for every sequence of appended pipeline durations and every N, the
\* bounded ranking retains appended entries whose durations are the N
\* largest ones of a full sort of the sequence; the aggregator's ranking is
\* the bounded ranking for its own N.
C6_TopNEqualsFullSort ==
  /\ \A n \in 1..(TopPipelineCount + 1) :
       LET top == InsertAllTop(<< >>, AppendedPipelines, n)
       IN  /\ SortDesc(TicksOf(top)) = FirstN(SortDesc(TicksOf(AppendedPipelines)), n)
           /\ Range(top) \subseteq Range(AppendedPipelines)
  /\ m_DataAggregator.m_TopPipelines =
       InsertAllTop(<< >>, AppendedPipelines, TopPipelineCount)

\* More entries than the ranking holds were appended and a later, longer
\* one displaced the minimum.
C6_Witness ==
  /\ Len(AppendedPipelines) > TopPipelineCount
  /\ \E i \in 1..Len(m_DataAggregator.m_TopPipelines) :
       /\ m_DataAggregator.m_TopPipelines[i] = AppendedPipelines[Len(AppendedPipelines)]
       /\ m_DataAggregator.m_TopPipelines[i].ticks > AppendedPipelines[1].ticks

(***************************************************************************)
(* Workload 6: render passes are created and destroyed.                    *)
(***************************************************************************)
AttachmentDescriptions == [ format : Formats, loadOp : LoadOps, stencilLoadOp : LoadOps ]
AttachmentLists ==
  UNION { [ 1..n -> AttachmentDescriptions ] : n \in 0..MaxAttachments }
\* Subpasses with one color attachment: no resolve attachments, an unused
\* one, or attachment 0.
SubpassDescriptions ==
  { [ hasResolveAttachments |-> FALSE, resolveAttachments |-> << >> ],
    [ hasResolveAttachments |-> TRUE, resolveAttachments |-> << VK_ATTACHMENT_UNUSED >> ],
    [ hasResolveAttachments |-> TRUE, resolveAttachments |-> << 0 >> ] }

\* CreateRenderPass( renderPass, const VkRenderPassCreateInfo* )
CreateRenderPass(t, renderPass, createInfo) ==
  /\ pc[t] = "idle"
  /\ m_RenderPasses[renderPass] = NoRenderPass
  /\ m_RenderPasses' =
       [ m_RenderPasses EXCEPT ![renderPass] = DeviceProfilerRenderPass(renderPass, createInfo) ]
  /\ hist' = [ hist EXCEPT !.createInfo[renderPass] = createInfo,
                           !.live.m_RenderPasses = @ \cup { renderPass } ]
  /\ UNCHANGED << m_Pipelines, m_ShaderModuleHashes, objectNames, Device, pc, loc, Mutexes, m_Config,
                  m_CommandBuffers, m_DataAggregator, m_Data,
                  Memory, m_CurrentFrame, GpuVars, frameStats, calls >>

DestroyRenderPass(t, renderPass) ==
  /\ pc[t] = "idle"
  /\ m_RenderPasses[renderPass] # NoRenderPass
  /\ m_RenderPasses' = [ m_RenderPasses EXCEPT ![renderPass] = NoRenderPass ]
  /\ hist' = [ hist EXCEPT !.createInfo[renderPass] = NoCreateInfo,
                           !.live.m_RenderPasses = @ \ { renderPass } ]
  /\ UNCHANGED << m_Pipelines, m_ShaderModuleHashes, objectNames, Device, pc, loc, Mutexes, m_Config,
                  m_CommandBuffers, m_DataAggregator, m_Data,
                  Memory, m_CurrentFrame, GpuVars, frameStats, calls >>

NextRenderPass ==
  \/ \E rp \in RenderPassHandles, as \in AttachmentLists, sp \in SubpassDescriptions :
       CreateRenderPass("t1", rp, [ attachments |-> as, subpasses |-> << sp >> ])
  \/ \E rp \in RenderPassHandles : DestroyRenderPass("t1", rp)

SpecRenderPass == Init /\ [][NextRenderPass]_vars

\* The aspects a format has (the depth and stencil formats of Vulkan).
HasDepthAspect(format) ==
  format \in { "VK_FORMAT_D16_UNORM", "VK_FORMAT_X8_D24_UNORM_PACK32", "VK_FORMAT_D32_SFLOAT",
               "VK_FORMAT_D16_UNORM_S8_UINT", "VK_FORMAT_D24_UNORM_S8_UINT",
               "VK_FORMAT_D32_SFLOAT_S8_UINT" }
HasStencilAspect(format) ==
  format \in { "VK_FORMAT_S8_UINT", "VK_FORMAT_D16_UNORM_S8_UINT",
               "VK_FORMAT_D24_UNORM_S8_UINT", "VK_FORMAT_D32_SFLOAT_S8_UINT" }
\* The attachment's depth or stencil aspect (or both) clears on load.
ClearsDepthStencil(a) ==
  \/ HasDepthAspect(a.format) /\ a.loadOp = "VK_ATTACHMENT_LOAD_OP_CLEAR"
  \/ HasStencilAspect(a.format) /\ a.stencilLoadOp = "VK_ATTACHMENT_LOAD_OP_CLEAR"

\* C7: every attachment with a depth and/or stencil format adds exactly one
\* to the render pass's depth-stencil clear count when its depth aspect,
\* its stencil aspect or both clear on load, and nothing otherwise.
C7_DepthStencilClearCount ==
  \A rp \in RenderPassHandles :
    m_RenderPasses[rp] # NoRenderPass =>
      LET as == hist.createInfo[rp].attachments
      IN  m_RenderPasses[rp].m_ClearDepthStencilAttachmentCount
            = Cardinality({ i \in DOMAIN as : ClearsDepthStencil(as[i]) })

(***************************************************************************)
(* Workload 7: two threads record one command buffer each (pipelines and   *)
(* draws, in any interleaving); the first thread then submits both in one  *)
(* batch and presents.                                                     *)
(***************************************************************************)
RecordedBy(t) == IF t = "t1" THEN "cb1" ELSE "cb2"

NextRecord ==
  \/ AllocateCommandBuffers_Enter("t1", "poolA", << "cb1", "cb2" >>)
  \/ AllocateCommandBuffers_Insert("t1")
  \/ \E t \in {"t1", "t2"} :
       \/ Registered = Handles /\ BeginCommandBuffer(t, RecordedBy(t))
       \/ \E p \in PipelineHandles :
            FewRegions(RecordedBy(t)) /\ CmdBindPipeline(t, RecordedBy(t), p)
       \/ OpenKind(RecordedBy(t)) = "Pipeline" /\ CmdDraw(t, RecordedBy(t))
       \/ EndCommandBuffer(t, RecordedBy(t))
  \/ \E submits \in { << << "cb1", "cb2" >> >>, << << "cb2" >>, << "cb1" >> >> } :
       QueueSubmit("t1", submits)
  \/ PostSubmitCommandBuffers("t1")
  \/ FinishFrame("t1")
  \/ GpuExecute

SpecRecord == Init /\ [][NextRecord]_vars

\* The recorder calls a history command stands for.
Replay1(c, cmd) ==
  CASE cmd[1] = "BeginRenderPass" -> RecorderBeginRenderPass(c, cmd[2])
    [] cmd[1] = "EndRenderPass" -> RecorderEndRenderPass(c)
    [] cmd[1] = "BindPipeline" -> RecorderBindPipeline(c, cmd[2])
    [] cmd[1] = "Draw" -> RecorderPostDraw(RecorderPreDraw(c))
    [] cmd[1] = "End" -> RecorderEnd(c)

RECURSIVE Replay(_, _)
Replay(c, cmds) == IF cmds = << >> THEN c ELSE Replay(Replay1(c, Head(cmds)), Tail(cmds))

\* The region tree a command buffer recorded alone with `cmds` has.
Shape(regions) ==
  [ i \in 1..Len(regions) |->
      [ kind |-> regions[i].kind, handle |-> regions[i].handle, parent |-> regions[i].parent ] ]
RecordedAlone(h, cmds) ==
  Shape(Replay(RecorderBegin(NewCommandBuffer("poolA", h)), cmds).regions)

DrawsIn(cmds) == Cardinality({ i \in DOMAIN cmds : cmds[i] = << "Draw" >> })

\* FinishFrame has just published a frame in which both command buffers
\* were submitted, in one batch, that batch was the frame's only submission
\* and no recording was begun since.
BothSubmitted ==
  /\ \E t \in Threads : pc[t] = "ff_reset"
  /\ Len(SubmittedThisFrame) = 1
  /\ Range(SubmittedThisFrame[1].cbs) = Handles
  /\ SubmittedThisFrame[1].rec = calls.recordings

\* C9: two command buffers recorded by two threads in any interleaving and
\* submitted in one batch: the registry holds both wrappers, and the frame
\* published by the next FinishFrame has one entry per command buffer, in
\* submission order, each carrying the regions of its own command buffer as
\* that command buffer recorded alone would have them, every region once.
C9_ConcurrentRecordingBothInFrame ==
  BothSubmitted =>
    LET e == SubmittedThisFrame[1]
        es == EntriesOf(m_Data)
    IN  /\ Handles \subseteq Registered
        /\ Len(m_Data.m_Submits) = 1
        /\ [ k \in 1..Len(es) |-> es[k].cb ] = e.cbs
        /\ \A k \in 1..Len(es) :
             /\ es[k].data.m_Handle = es[k].cb
             /\ Shape(es[k].data.regions) = RecordedAlone(es[k].cb, e.cmds[es[k].cb])
        /\ Len(m_Data.folded) = 2
        /\ \A h \in Handles :
             Cardinality({ k \in 1..2 : m_Data.folded[k].m_Handle = h }) = 1
        /\ m_Data.m_Stats.m_TotalDrawCount = DrawsIn(e.cmds["cb1"]) + DrawsIn(e.cmds["cb2"])

\* The second recording was begun while the first one was in progress,
\* each holds a draw, in different pipelines, and the frame shows both.
C9_Witness ==
  /\ BothSubmitted /\ hist.overlap
  /\ \A h \in Handles : DrawsIn(SubmittedThisFrame[1].cmds[h]) = 1
  /\ SubmittedThisFrame[1].cmds["cb1"][1] # SubmittedThisFrame[1].cmds["cb2"][1]
  /\ m_Data.m_Stats.m_TotalDrawCount = 2

(***************************************************************************)
(* Workload 8: the recorder.  One thread records one command buffer, once, *)
(* with render passes, pipelines and draws in every order the recorder     *)
(* accepts, submits it and presents.                                       *)
(***************************************************************************)
NextRecorder ==
  \/ AllocateCommandBuffers_Enter("t1", "poolA", << "cb1" >>)
  \/ AllocateCommandBuffers_Insert("t1")
  \/ calls.recordings = 0 /\ BeginCommandBuffer("t1", "cb1")
  \/ \E rp \in RenderPassHandles : CmdBeginRenderPass("t1", "cb1", rp)
  \/ \E p \in PipelineHandles : CmdBindPipeline("t1", "cb1", p)
  \/ CmdDraw("t1", "cb1")
  \/ CmdEndRenderPass("t1", "cb1")
  \/ EndCommandBuffer("t1", "cb1")
  \/ QueueSubmit("t1", << << "cb1" >> >>)
  \/ PostSubmitCommandBuffers("t1")
  \/ FinishFrame("t1")
  \/ GpuExecute

SpecRecorder == Init /\ [][NextRecorder]_vars

Finalized(c) == c # NoCB /\ c.state \in {"Ended", "Submitted", "DataReady"}

\* A region's timestamps are both the sentinel or both resolved; a resolved
\* region ends no earlier than it begins, and lies within its parent.
WellTimed(snap) ==
  \A i \in DOMAIN snap.regions :
    LET r == snap.regions[i]
    IN  /\ (r.m_BeginTimestamp = Pending) <=> (r.m_EndTimestamp = Pending)
        /\ IsResolved(r) =>
             /\ r.m_EndTimestamp >= r.m_BeginTimestamp
             /\ r.parent # 0 =>
                  /\ IsResolved(snap.regions[r.parent])
                  /\ snap.regions[r.parent].m_BeginTimestamp <= r.m_BeginTimestamp
                  /\ r.m_EndTimestamp <= snap.regions[r.parent].m_EndTimestamp

AllPending(snap) ==
  \A i \in DOMAIN snap.regions :
    snap.regions[i].m_BeginTimestamp = Pending /\ snap.regions[i].m_EndTimestamp = Pending

\* C10: for every sequence of recorder calls between Begin and End, the
\* finalized tree is well timed: before the recording was submitted and
\* executed every timestamp is the pending sentinel; once resolved every
\* region has end >= begin and lies within its parent's interval.  The
\* same holds of every snapshot the aggregator and the published frame hold.
C10_RegionTreeWellTimed ==
  /\ \A h \in Handles :
       Finalized(m_CommandBuffers[h]) =>
         /\ WellTimed(RecorderGetData(m_CommandBuffers[h]))
         /\ (m_CommandBuffers[h].state = "Ended" \/ ~m_CommandBuffers[h].executed)
              => AllPending(RecorderGetData(m_CommandBuffers[h]))
  /\ \A k \in 1..Len(m_DataAggregator.folded) : WellTimed(m_DataAggregator.folded[k])
  /\ \A k \in 1..Len(m_Data.folded) : WellTimed(m_Data.folded[k])

\* A drawcall inside a pipeline inside a subpass of a render pass, read
\* back with distinct ticks: the drawcall lies strictly within the pipeline.
C10_Witness ==
  /\ Finalized(m_CommandBuffers["cb1"]) /\ m_CommandBuffers["cb1"].state = "DataReady"
  /\ LET snap == RecorderGetData(m_CommandBuffers["cb1"])
     IN  \E d \in OfKind(snap, "Drawcall") :
           LET p == snap.regions[d].parent
           IN  /\ snap.regions[p].kind = "Pipeline"
               /\ snap.regions[snap.regions[p].parent].kind = "Subpass"
               /\ snap.regions[p].m_BeginTimestamp < snap.regions[d].m_BeginTimestamp
               /\ snap.regions[d].m_BeginTimestamp < snap.regions[d].m_EndTimestamp
               /\ snap.regions[d].m_EndTimestamp < snap.regions[p].m_EndTimestamp

(***************************************************************************)
(* Workload 9: shader modules and pipelines are created and destroyed.     *)
(***************************************************************************)
StageInfos(stage) ==
  [ stage : {stage}, module : ShaderModuleHandles, pName : EntryPoints ]
\* Graphics pipelines with a vertex shader, or a vertex and a fragment shader.
GraphicsCreateInfos ==
  { [ pStages |-> << v >> ] : v \in StageInfos("VK_SHADER_STAGE_VERTEX_BIT") } \cup
  { [ pStages |-> << v, f >> ] : v \in StageInfos("VK_SHADER_STAGE_VERTEX_BIT"),
                                 f \in StageInfos("VK_SHADER_STAGE_FRAGMENT_BIT") }
ComputeCreateInfos == { [ stage |-> c ] : c \in StageInfos("VK_SHADER_STAGE_COMPUTE_BIT") }

\* What a pipeline was made from: per stage, the module's code and the name.
ShaderInput(stageInfo) ==
  [ stage |-> stageInfo.stage, code |-> hist.code[stageInfo.module], pName |-> stageInfo.pName ]

ObjectsFrame ==
  UNCHANGED << pc, loc, Mutexes, m_Config, m_RenderPasses, Device, m_CommandBuffers,
               m_DataAggregator, m_Data, Memory, m_CurrentFrame, GpuVars, frameStats, calls >>

\* CreateShaderModule( module, pCreateInfo )
CreateShaderModule(t, module, code) ==
  /\ pc[t] = "idle"
  /\ m_ShaderModuleHashes[module] = NoHash
  /\ m_ShaderModuleHashes' = [ m_ShaderModuleHashes EXCEPT ![module] = Fingerprint32(code) ]
  /\ hist' = [ hist EXCEPT !.code[module] = code,
                           !.live.m_ShaderModuleHashes = @ \cup { module } ]
  /\ ObjectsFrame /\ UNCHANGED << m_Pipelines, objectNames >>

DestroyShaderModule(t, module) ==
  /\ pc[t] = "idle"
  /\ m_ShaderModuleHashes[module] # NoHash
  /\ m_ShaderModuleHashes' = [ m_ShaderModuleHashes EXCEPT ![module] = NoHash ]
  /\ hist' = [ hist EXCEPT !.code[module] = << >>,
                           !.live.m_ShaderModuleHashes = @ \ { module } ]
  /\ ObjectsFrame /\ UNCHANGED << m_Pipelines, objectNames >>

\* SetDefaultPipelineObjectName: emplace keeps a name that is there.
SetDefaultPipelineObjectName(names, pipeline) ==
  IF names[pipeline.m_Handle] # NoName THEN names
  ELSE [ names EXCEPT ![pipeline.m_Handle] =
           IF pipeline.m_BindPoint = "VK_PIPELINE_BIND_POINT_GRAPHICS"
           THEN << "VS=" >> \o u32tohex(pipeline.m_ShaderTuple.m_Vert, HexDigits)
                \o << ",PS=" >> \o u32tohex(pipeline.m_ShaderTuple.m_Frag, HexDigits)
           ELSE << "CS=" >> \o u32tohex(pipeline.m_ShaderTuple.m_Comp, HexDigits) ]

RegisterPipeline(profilerPipeline) ==
  /\ m_Pipelines' = [ m_Pipelines EXCEPT ![profilerPipeline.m_Handle] = profilerPipeline ]
  /\ objectNames' = SetDefaultPipelineObjectName(objectNames, profilerPipeline)

\* CreatePipelines( 1, VkGraphicsPipelineCreateInfo*, pPipelines )
CreateGraphicsPipelines(t, pipeline, createInfo) ==
  /\ pc[t] = "idle"
  /\ m_Pipelines[pipeline] = NoPipeline
  /\ \A i \in DOMAIN createInfo.pStages :
        m_ShaderModuleHashes[createInfo.pStages[i].module] # NoHash
  /\ RegisterPipeline(
       [ m_Handle |-> pipeline,
         m_ShaderTuple |-> CreateGraphicsShaderTuple(m_ShaderModuleHashes, createInfo),
         m_BindPoint |-> "VK_PIPELINE_BIND_POINT_GRAPHICS" ])
  /\ hist' = [ hist EXCEPT !.shaders[pipeline] =
                 [ i \in DOMAIN createInfo.pStages |-> ShaderInput(createInfo.pStages[i]) ],
                 !.live.m_Pipelines = @ \cup { pipeline } ]
  /\ ObjectsFrame /\ UNCHANGED m_ShaderModuleHashes

\* CreatePipelines( 1, VkComputePipelineCreateInfo*, pPipelines )
CreateComputePipelines(t, pipeline, createInfo) ==
  /\ pc[t] = "idle"
  /\ m_Pipelines[pipeline] = NoPipeline
  /\ m_ShaderModuleHashes[createInfo.stage.module] # NoHash
  /\ RegisterPipeline(
       [ m_Handle |-> pipeline,
         m_ShaderTuple |-> CreateComputeShaderTuple(m_ShaderModuleHashes, createInfo),
         m_BindPoint |-> "VK_PIPELINE_BIND_POINT_COMPUTE" ])
  /\ hist' = [ hist EXCEPT !.shaders[pipeline] = << ShaderInput(createInfo.stage) >>,
                           !.live.m_Pipelines = @ \cup { pipeline } ]
  /\ ObjectsFrame /\ UNCHANGED m_ShaderModuleHashes

DestroyPipeline(t, pipeline) ==
  /\ pc[t] = "idle"
  /\ m_Pipelines[pipeline] # NoPipeline
  /\ m_Pipelines' = [ m_Pipelines EXCEPT ![pipeline] = NoPipeline ]
  /\ hist' = [ hist EXCEPT !.shaders[pipeline] = << >>,
                           !.live.m_Pipelines = @ \ { pipeline } ]
  /\ ObjectsFrame /\ UNCHANGED << m_ShaderModuleHashes, objectNames >>

NextShader ==
  \/ \E m \in ShaderModuleHandles, code \in ShaderCodes : CreateShaderModule("t1", m, code)
  \/ \E m \in ShaderModuleHandles : DestroyShaderModule("t1", m)
  \/ \E ci \in GraphicsCreateInfos : CreateGraphicsPipelines("t1", "P1", ci)
  \/ \E ci \in ComputeCreateInfos : CreateComputePipelines("t1", "P1", ci)
  \/ DestroyPipeline("t1", "P1")

SpecShader == Init /\ [][NextShader]_vars

\* The stages of a create info, the tuple the profiler would make of it now
\* and what it would be made from.
StagesOf(ci) == IF "stage" \in DOMAIN ci THEN << ci.stage >> ELSE ci.pStages
Usable(ci) == \A i \in DOMAIN StagesOf(ci) : m_ShaderModuleHashes[StagesOf(ci)[i].module] # NoHash
TupleNow(ci) ==
  IF "stage" \in DOMAIN ci THEN CreateComputeShaderTuple(m_ShaderModuleHashes, ci)
  ELSE CreateGraphicsShaderTuple(m_ShaderModuleHashes, ci)
InputNow(ci) == [ i \in DOMAIN StagesOf(ci) |-> ShaderInput(StagesOf(ci)[i]) ]

\* Two inputs with the same stages that differ in the code or the entry
\* point of stage i and in nothing else.
DiffersAt(a, b, i) ==
  /\ Len(a) = Len(b) /\ i \in DOMAIN a
  /\ a[i] # b[i]
  /\ \A k \in DOMAIN a : a[k].stage = b[k].stage /\ (k # i => a[k] = b[k])

StageField(tuple, stage) ==
  CASE stage = "VK_SHADER_STAGE_VERTEX_BIT" -> tuple.m_Vert
    [] stage = "VK_SHADER_STAGE_FRAGMENT_BIT" -> tuple.m_Frag
    [] stage = "VK_SHADER_STAGE_COMPUTE_BIT" -> tuple.m_Comp

\* Computing the tuple again from the same module content and entry-point
\* names gives the registered pipeline's tuple, field by field.
ShaderTupleDeterministic ==
  \A p \in PipelineHandles, ci \in GraphicsCreateInfos \cup ComputeCreateInfos :
    (m_Pipelines[p] # NoPipeline /\ Usable(ci) /\ InputNow(ci) = hist.shaders[p])
      => TupleNow(ci) = m_Pipelines[p].m_ShaderTuple

\* C11 as stated: the tuple is deterministic, and changing the module
\* content or the entry-point string of one stage (one of the two, the
\* other kept) changes the aggregate hash.
C11_ShaderTupleSensitive ==
  /\ ShaderTupleDeterministic
  /\ \A p \in PipelineHandles, ci \in GraphicsCreateInfos \cup ComputeCreateInfos :
       (m_Pipelines[p] # NoPipeline /\ Usable(ci)) =>
         \A i \in DOMAIN hist.shaders[p] :
           ( /\ DiffersAt(hist.shaders[p], InputNow(ci), i)
             /\ \/ hist.shaders[p][i].pName = InputNow(ci)[i].pName
                \/ hist.shaders[p][i].code = InputNow(ci)[i].code )
             => TupleNow(ci).m_Hash # m_Pipelines[p].m_ShaderTuple.m_Hash

\* C11, amended: the tuple is deterministic; changing the module content or
\* the entry-point string of one stage changes that stage's hash exactly
\* when it changes the fingerprint of what was changed, the aggregate hash
\* of a compute pipeline exactly then, and the aggregate hash of a graphics
\* pipeline only then (fingerprints of different contents may be equal).
C11_ShaderTupleUpToCollisions ==
  /\ ShaderTupleDeterministic
  /\ \A p \in PipelineHandles, ci \in GraphicsCreateInfos \cup ComputeCreateInfos :
       (m_Pipelines[p] # NoPipeline /\ Usable(ci)) =>
         \A i \in DOMAIN hist.shaders[p] :
           DiffersAt(hist.shaders[p], InputNow(ci), i) =>
             LET old == m_Pipelines[p].m_ShaderTuple
                 new == TupleNow(ci)
                 stage == hist.shaders[p][i].stage
                 oldIn == hist.shaders[p][i]
                 newIn == InputNow(ci)[i]
                 printsDiffer ==
                   \/ oldIn.pName = newIn.pName
                        /\ Fingerprint32(oldIn.code) # Fingerprint32(newIn.code)
                   \/ oldIn.code = newIn.code
                        /\ Fingerprint32(oldIn.pName) # Fingerprint32(newIn.pName)
                 oneChanged == oldIn.pName = newIn.pName \/ oldIn.code = newIn.code
             IN  /\ oneChanged =>
                      (StageField(new, stage) # StageField(old, stage) <=> printsDiffer)
                 /\ StageField(new, stage) = StageField(old, stage) => new.m_Hash = old.m_Hash
                 /\ stage = "VK_SHADER_STAGE_COMPUTE_BIT" =>
                      (new.m_Hash # old.m_Hash <=> StageField(new, stage) # StageField(old, stage))

\* A graphics pipeline is registered, and the same create info with another
\* module's different code for its fragment shader has another aggregate hash.
C11_Witness ==
  \E ci \in GraphicsCreateInfos :
    /\ m_Pipelines["P1"] # NoPipeline /\ Usable(ci) /\ Len(ci.pStages) = 2
    /\ DiffersAt(hist.shaders["P1"], InputNow(ci), 2)
    /\ hist.shaders["P1"][2].pName = InputNow(ci)[2].pName
    /\ TupleNow(ci).m_Hash # m_Pipelines["P1"].m_ShaderTuple.m_Hash

(***************************************************************************)
(* Workload 10: a render thread records, submits and presents while a      *)
(* second thread changes the configuration.                                *)
(***************************************************************************)
SyncModeValues == SyncModes \cup { VK_PROFILER_SYNC_MODE_MAX_ENUM_EXT }

\* What a configuration call leaves alone; the history notes the call and
\* the status it returned.
ConfigFrame(op, arg, result) ==
  /\ hist' = [ hist EXCEPT !.config = [ op |-> op, arg |-> arg, result |-> result ] ]
  /\ Count("configs")
  /\ UNCHANGED << pc, loc, Mutexes, Objects, m_CommandBuffers, m_DataAggregator, m_Data, Memory,
                  m_CurrentFrame, GpuVars, frameStats >>

\* A SetSyncMode that stores whatever it is given.
SetSyncMode_Unchecked(t, syncMode) ==
  /\ pc[t] = "idle" /\ calls.configs < MaxConfigCalls
  /\ m_Config' = [ m_Config EXCEPT !.m_SyncMode = syncMode ]
  /\ ConfigFrame("SetSyncMode", syncMode, VK_SUCCESS)

SetSyncMode(t, syncMode) ==
  /\ pc[t] = "idle" /\ calls.configs < MaxConfigCalls
  /\ IF syncMode # VK_PROFILER_SYNC_MODE_PRESENT_EXT /\ syncMode # VK_PROFILER_SYNC_MODE_SUBMIT_EXT
     THEN /\ UNCHANGED m_Config
          /\ ConfigFrame("SetSyncMode", syncMode, VK_ERROR_VALIDATION_FAILED_EXT)
     ELSE /\ m_Config' = [ m_Config EXCEPT !.m_SyncMode = syncMode ]
          /\ ConfigFrame("SetSyncMode", syncMode, VK_SUCCESS)

SetMode(t, mode) ==
  /\ pc[t] = "idle" /\ calls.configs < MaxConfigCalls
  /\ m_Config' = [ m_Config EXCEPT !.m_Mode = mode ]
  /\ ConfigFrame("SetMode", mode, VK_SUCCESS)

NextConfig ==
  \/ AllocateCommandBuffers_Enter("t1", "poolA", << "cb1" >>)
  \/ AllocateCommandBuffers_Insert("t1")
  \/ BeginCommandBuffer("t1", "cb1")
  \/ EndCommandBuffer("t1", "cb1")
  \/ QueueSubmit("t1", << << "cb1" >> >>)
  \/ PostSubmitCommandBuffers("t1")
  \/ FinishFrame("t1")
  \/ GpuExecute
  \/ \E syncMode \in SyncModeValues : SetSyncMode("t2", syncMode)
  \/ \E mode \in ProfilerModes : SetMode("t2", mode)

SpecConfig == Init /\ [][NextConfig]_vars

\* C12: SetSyncMode with a value other than the two supported ones returns
\* the validation error and changes nothing of the profiler; with a
\* supported value it succeeds and changes m_SyncMode only.  SetMode
\* succeeds and changes m_Mode only.
C12_ConfigurationCalls ==
  [][ calls.configs' # calls.configs =>
        LET c == hist.config'
        IN  /\ UNCHANGED << Mutexes, Objects, m_CommandBuffers, m_DataAggregator, m_Data,
                            Memory, m_CurrentFrame, GpuVars, frameStats >>
            /\ IF c.op = "SetMode"
               THEN /\ c.result = VK_SUCCESS
                    /\ m_Config' = [ m_Config EXCEPT !.m_Mode = c.arg ]
               ELSE IF c.arg \in SyncModes
               THEN /\ c.result = VK_SUCCESS
                    /\ m_Config' = [ m_Config EXCEPT !.m_SyncMode = c.arg ]
               ELSE /\ c.result = VK_ERROR_VALIDATION_FAILED_EXT
                    /\ m_Config' = m_Config ]_vars

\* An unsupported synchronization mode was refused after a supported one
\* had changed the mode, with a frame in progress.
C12_Witness ==
  /\ hist.config.op = "SetSyncMode" /\ hist.config.arg = VK_PROFILER_SYNC_MODE_MAX_ENUM_EXT
  /\ hist.config.result = VK_ERROR_VALIDATION_FAILED_EXT
  /\ calls.configs = 2 /\ m_Config.m_SyncMode \in SyncModes
  /\ m_DataAggregator.m_Submits # << >>

(***************************************************************************)
(* The lifecycle of a recorder, over Workload 4 (a command buffer that is  *)
(* recorded, submitted and read back, and then recorded or submitted       *)
(* again).                                                                 *)
(***************************************************************************)
LifecycleOrder == << "Initial", "Recording", "Ended", "Submitted", "DataReady" >>

StateOf(h) == m_CommandBuffers[h].state

\* The step is the Aggregate() of a synchronization point: FinishFrame's,
\* after DeviceWaitIdle, or PostSubmit's in submit mode, after the fence.
ReadbackStep ==
  \E t \in Threads :
     /\ pc[t]' # pc[t]
     /\ \/ pc[t] = "ff_aggregate"
        \/ pc[t] = "ps_final" /\ m_Config.m_SyncMode = VK_PROFILER_SYNC_MODE_SUBMIT_EXT

BeginStep == calls.recordings' # calls.recordings
SubmitStep == hist.submitted' # hist.submitted
EndStep(h) == hist.cmds[h]' = Append(hist.cmds[h], << "End" >>)

\* What each operation does to the lifecycle state, and what else may.
LifecycleStep(h) ==
  /\ BeginStep => \E g \in Handles : StateOf(g) # "Recording" /\ StateOf(g)' = "Recording"
  /\ EndStep(h) => StateOf(h) = "Recording" /\ StateOf(h)' = "Ended"
  /\ SubmitStep =>
       \A g \in Range(hist.submitted'[Len(hist.submitted')].cbs) : StateOf(g)' = "Submitted"
  /\ StateOf(h)' # StateOf(h) =>
       CASE StateOf(h)' = "Recording" -> BeginStep
         [] StateOf(h)' = "Ended" -> EndStep(h)
         [] StateOf(h)' = "Submitted" -> SubmitStep
         [] StateOf(h)' = "DataReady" ->
              /\ StateOf(h) = "Submitted" /\ ReadbackStep
              /\ m_CommandBuffers[h].executed /\ h \notin OnGpu
         [] StateOf(h)' = "Initial" -> StateOf(h) = "None"
         [] OTHER -> FALSE

\* The state changes of the order, each state to the next one, and the
\* entry into the order at allocation.
Forward(a, b) ==
  \/ a = "None" /\ b = "Initial"
  \/ \E i \in 1..4 : a = LifecycleOrder[i] /\ b = LifecycleOrder[i + 1]

\* C13 as stated: a recorder changes state only from one state of the
\* order Initial, Recording, Ended, Submitted, DataReady to the next; Begin
\* enters Recording, End Ended, Submit Submitted, and only a readback at a
\* synchronization point enters DataReady.
C13_LifecycleStrictOrder ==
  [][ \A h \in Handles :
        /\ LifecycleStep(h)
        /\ StateOf(h)' # StateOf(h) => Forward(StateOf(h), StateOf(h)') ]_vars

\* C13, amended: as above, except that the order is that of one recording:
\* Begin enters Recording from every state but Recording, and Submit
\* enters Submitted from DataReady as it does from Ended.
C13_LifecyclePerRecording ==
  [][ \A h \in Handles :
        /\ LifecycleStep(h)
        /\ StateOf(h)' # StateOf(h) =>
              \/ Forward(StateOf(h), StateOf(h)')
              \/ StateOf(h)' = "Recording" /\ StateOf(h) \in {"Ended", "Submitted", "DataReady"}
              \/ StateOf(h)' = "Submitted" /\ StateOf(h) = "DataReady" ]_vars

\* A recorder that was read back is recorded and submitted again and read
\* back a second time.
C13_Witness ==
  /\ StateOf("cb1") = "DataReady"
  /\ calls.recordings = 2 /\ Len(hist.submitted) = 2
  /\ m_CurrentFrame = 2

(***************************************************************************)
(* Workload 11: the vendor metrics backend is available; two threads       *)
(* record a command buffer each and submit it, each to a queue of its own, *)
(* and the first presents.                                                 *)
(***************************************************************************)
NextMetrics ==
  \/ AllocateCommandBuffers_Enter("t1", "poolA", << "cb1", "cb2" >>)
  \/ AllocateCommandBuffers_Insert("t1")
  \/ BeginCommandBuffer("t1", "cb1")
  \/ EndCommandBuffer("t1", "cb1")
  \/ BeginCommandBuffer("t2", "cb2")
  \/ EndCommandBuffer("t2", "cb2")
  \/ QueueSubmit("t1", << << "cb1" >> >>)
  \/ QueueSubmit("t2", << << "cb2" >> >>)
  \/ PostSubmitCommandBuffers("t1")
  \/ PostSubmitCommandBuffers("t2")
  \/ FinishFrame("t1")
  \/ GpuExecute

SpecMetrics == InitINTEL /\ [][NextMetrics]_vars

Outstanding == SumSeq([ i \in 1..3 |-> acquiredINTEL[<< "t1", "t2", "t3" >>[i]] ])

\* C14: the performance-configuration handle has at most one acquisition
\* outstanding: the assertion at the entry of PreSubmit holds, what a
\* PreSubmit acquired is released once the PostSubmit of the same batch has
\* returned, and the handle is null when no submission is in progress.
C14_SingleAcquisition ==
  /\ "PreSubmitCommandBuffers" \notin failedAsserts
  /\ Outstanding <= 1
  /\ \A t \in Threads : pc[t] = "idle" => acquiredINTEL[t] = 0
  /\ (\A t \in Threads : pc[t] = "idle") => m_PerformanceConfigurationINTEL = VK_NULL_HANDLE

(***************************************************************************)
(* The order of FinishFrame's steps, over Workload 1.                      *)
(***************************************************************************)
\* Where a thread is in FinishFrame before m_Data is assigned, and after.
BeforePublish == { "ff_wait", "ff_aggregate", "ff_lockdata", "ff_assign" }
AfterPublish == { "ff_memory", "ff_cpu", "ff_reset" }

\* C15: FinishFrame fetches the merged snapshot under the data lock,
\* attaches the CPU and memory statistics, publishes, then increments the
\* frame counter, then resets the aggregator: the counter grows by one per
\* FinishFrame and not before that frame's aggregate is published, and
\* what is published has its statistics attached.
C15_FinishFrameOrder ==
  /\ (\A t \in Threads : pc[t] \notin BeforePublish \cup AfterPublish) =>
        m_CurrentFrame = Len(hist.published)
  /\ \A t \in Threads :
        /\ pc[t] \in BeforePublish => m_CurrentFrame = Len(hist.published)
        /\ pc[t] = "ff_memory" => m_Data.m_CPU = [ m_TimeNs |-> Len(hist.published) + 1 ]

(***************************************************************************)
(* Workload 12: a thread records and submits one command buffer and        *)
(* presents while a second thread frees command buffers, the other one of  *)
(* the pool or, once it was submitted and executed, the same.              *)
(***************************************************************************)
NextHandOff ==
  \/ AllocateCommandBuffers_Enter("t1", "poolA", << "cb1", "cb2" >>)
  \/ AllocateCommandBuffers_Insert("t1")
  \/ BeginCommandBuffer("t1", "cb1")
  \/ EndCommandBuffer("t1", "cb1")
  \/ QueueSubmit("t1", << << "cb1" >> >>)
  \/ PostSubmitCommandBuffers("t1")
  \/ FinishFrame("t1")
  \/ \E h \in Handles : FreeCommandBuffers_Enter("t2", << h >>)
  \/ FreeCommandBuffers_Free("t2")
  \/ GpuExecute

SpecHandOff == Init /\ [][NextHandOff]_vars

\* Where a thread is in PostSubmitCommandBuffers with m_SubmitMutex taken,
\* and in FreeCommandBuffers.
InPostSubmit == { "ps_wait", "ps_build", "ps_final" }
InFree == { "fcb_free", "fcp_free" }

\* FreeCommandBuffers flushes and removes with the registry lock held, and
\* is never in progress while a PostSubmit is.
FreeHoldsRegistry ==
  /\ \A t \in Threads : pc[t] \in InFree => cbLock = t
  /\ \A t, u \in Threads : ~(pc[t] \in InPostSubmit /\ pc[u] \in InFree)

\* C16 as stated: PostSubmit holds the registry lock around each Submit()
\* call and FreeCommandBuffers holds it around flush and removal, so that
\* no recorder is mutated by PostSubmit while another thread frees.
C16_RegistryLockAroundSubmit ==
  /\ FreeHoldsRegistry
  /\ \A t \in Threads : pc[t] = "ps_build" => cbLock = t

\* C16, amended: PostSubmit holds m_SubmitMutex around each Submit() call
\* (the registry lock is taken for the lookup only), and FreeCommandBuffers
\* holds m_SubmitMutex together with the registry lock around flush and
\* removal, so that no recorder is mutated by PostSubmit while another
\* thread frees.
C16_SubmitMutexAroundSubmit ==
  /\ FreeHoldsRegistry
  /\ \A t \in Threads : pc[t] \in InPostSubmit \cup InFree => m_SubmitMutex = t

\* A free is in progress while a submission waits to enter PostSubmit.
C16_Witness ==
  /\ pc["t2"] = "fcb_free" /\ pc["t1"] = "ps_enter"
  /\ m_CommandBuffers["cb1"].state = "Ended"

(***************************************************************************)
(* Workload 13: the four registries.  One thread registers and unregisters *)
(* a command buffer, shader modules, a compute pipeline and a render pass; *)
(* a second thread looks handles up.                                       *)
(***************************************************************************)
\* ConcurrentMap::at: the value of a registered key; a key that is not
\* registered is an error and inserts nothing.
At(map, none, handle) ==
  [ status |-> IF map[handle] = none THEN "NotFound" ELSE "Ok", map |-> map ]

\* An at() that registers a default value for a key that is not there.
At_Inserting(map, none, handle) ==
  [ status |-> "Ok",
    map |-> IF map[handle] = none THEN [ map EXCEPT ![handle] = [ m_Handle |-> handle ] ]
            ELSE map ]

\* ConcurrentMap::find: the position of the key, or end().
Find(map, none, handle) ==
  [ status |-> "Ok", found |-> map[handle] # none ]

LookupFrame(registry, handle, status) ==
  /\ hist' = [ hist EXCEPT !.lookup = [ registry |-> registry, handle |-> handle, status |-> status ] ]
  /\ UNCHANGED << pc, loc, Mutexes, Device, m_Config, m_DataAggregator, m_Data, Memory,
                  m_CurrentFrame, GpuVars, frameStats, calls >>

\* GetCommandBuffer( commandBuffer )
GetCommandBuffer(t, commandBuffer) ==
  /\ pc[t] = "idle" /\ cbLock = NoThread
  /\ LET r == At(m_CommandBuffers, NoCB, commandBuffer)
     IN  /\ m_CommandBuffers' = r.map
         /\ LookupFrame("m_CommandBuffers", commandBuffer, r.status)
  /\ UNCHANGED Registries

\* GetPipeline( pipeline )
GetPipeline(t, pipeline) ==
  /\ pc[t] = "idle"
  /\ LET r == At(m_Pipelines, NoPipeline, pipeline)
     IN  /\ m_Pipelines' = r.map
         /\ LookupFrame("m_Pipelines", pipeline, r.status)
  /\ UNCHANGED << m_CommandBuffers, m_RenderPasses, m_ShaderModuleHashes, objectNames >>

\* A GetRenderPass over an at() that inserts.
GetRenderPass_Inserting(t, renderPass) ==
  /\ pc[t] = "idle"
  /\ LET r == At_Inserting(m_RenderPasses, NoRenderPass, renderPass)
     IN  /\ m_RenderPasses' = r.map
         /\ LookupFrame("m_RenderPasses", renderPass, r.status)
  /\ UNCHANGED << m_CommandBuffers, m_Pipelines, m_ShaderModuleHashes, objectNames >>

\* GetRenderPass( renderPass )
GetRenderPass(t, renderPass) ==
  /\ pc[t] = "idle"
  /\ LET r == At(m_RenderPasses, NoRenderPass, renderPass)
     IN  /\ m_RenderPasses' = r.map
         /\ LookupFrame("m_RenderPasses", renderPass, r.status)
  /\ UNCHANGED << m_CommandBuffers, m_Pipelines, m_ShaderModuleHashes, objectNames >>

\* m_ShaderModuleHashes.at( module ), as CreateShaderTuple looks a module up.
GetShaderModuleHash(t, module) ==
  /\ pc[t] = "idle"
  /\ LET r == At(m_ShaderModuleHashes, NoHash, module)
     IN  /\ m_ShaderModuleHashes' = r.map
         /\ LookupFrame("m_ShaderModuleHashes", module, r.status)
  /\ UNCHANGED << m_CommandBuffers, m_Pipelines, m_RenderPasses, objectNames >>

RegistryCreateInfos ==
  { [ attachments |-> << >>, subpasses |-> << sp >> ] :
      sp \in { d \in SubpassDescriptions : ~d.hasResolveAttachments } }

NextRegistry ==
  \/ AllocateCommandBuffers_Enter("t1", "poolA", << "cb1" >>)
  \/ AllocateCommandBuffers_Insert("t1")
  \/ FreeCommandBuffers_Enter("t1", << "cb1" >>)
  \/ FreeCommandBuffers_Free("t1")
  \/ \E m \in ShaderModuleHandles : CreateShaderModule("t1", m, << 1 >>)
  \/ \E m \in ShaderModuleHandles : DestroyShaderModule("t1", m)
  \/ \E ci \in ComputeCreateInfos :
       ci.stage.pName = << 1 >> /\ CreateComputePipelines("t1", "P1", ci)
  \/ DestroyPipeline("t1", "P1")
  \/ \E ci \in RegistryCreateInfos : CreateRenderPass("t1", "RP1", ci)
  \/ DestroyRenderPass("t1", "RP1")
  \/ \E h \in Handles : GetCommandBuffer("t2", h)
  \/ \E p \in PipelineHandles : GetPipeline("t2", p)
  \/ \E rp \in RenderPassHandles : GetRenderPass("t2", rp)
  \/ \E m \in ShaderModuleHandles : GetShaderModuleHash("t2", m)

SpecRegistry == Init /\ [][NextRegistry]_vars

\* A registry, its keys and the value that stands for "not registered".
RegistryMap(r) ==
  CASE r = "m_CommandBuffers" -> m_CommandBuffers
    [] r = "m_Pipelines" -> m_Pipelines
    [] r = "m_RenderPasses" -> m_RenderPasses
    [] r = "m_ShaderModuleHashes" -> m_ShaderModuleHashes

RegistryNone(r) ==
  CASE r = "m_CommandBuffers" -> NoCB
    [] r = "m_Pipelines" -> NoPipeline
    [] r = "m_RenderPasses" -> NoRenderPass
    [] r = "m_ShaderModuleHashes" -> NoHash

Registered_In(r) ==
  CASE r = "m_CommandBuffers" -> { h \in Handles : m_CommandBuffers[h] # NoCB }
    [] r = "m_Pipelines" -> { h \in PipelineHandles : m_Pipelines[h] # NoPipeline }
    [] r = "m_RenderPasses" -> { h \in RenderPassHandles : m_RenderPasses[h] # NoRenderPass }
    [] r = "m_ShaderModuleHashes" -> { h \in ShaderModuleHandles : m_ShaderModuleHashes[h] # NoHash }

\* The registries' keys are those inserted and not removed since.
RegistriesTrackLive == \A r \in RegistryNames : Registered_In(r) = hist.live[r]

\* C17: in each of the four registries at(handle) succeeds exactly when the
\* handle was inserted and not removed since, and fails with NotFound
\* otherwise, leaving the registry as it was; find never fails; and an
\* operation on one registry does not change another.
C17_RegistryLookups ==
  [][ /\ RegistriesTrackLive /\ RegistriesTrackLive'
      /\ hist.lookup' # hist.lookup =>
            /\ \A r \in RegistryNames : RegistryMap(r)' = RegistryMap(r)
            /\ hist.lookup'.status =
                 IF hist.lookup'.handle \in hist.live[hist.lookup'.registry]
                 THEN "Ok" ELSE "NotFound"
      /\ \A r \in RegistryNames : \A h \in DOMAIN RegistryMap(r) :
            /\ Find(RegistryMap(r), RegistryNone(r), h).status = "Ok"
            /\ Find(RegistryMap(r), RegistryNone(r), h).found <=> h \in hist.live[r]
      /\ \A r, q \in RegistryNames :
            (r # q /\ RegistryMap(r)' # RegistryMap(r)) => RegistryMap(q)' = RegistryMap(q) ]_vars

\* A lookup of a handle that was registered and removed fails, while the
\* other registries hold entries.
C17_Witness ==
  /\ hist.lookup = [ registry |-> "m_Pipelines", handle |-> "P1", status |-> "NotFound" ]
  /\ hist.live = [ r \in RegistryNames |->
                     CASE r = "m_CommandBuffers" -> { "cb1" }
                       [] r = "m_Pipelines" -> {}
                       [] r = "m_RenderPasses" -> { "RP1" }
                       [] r = "m_ShaderModuleHashes" -> { "sm1" } ]
  /\ objectNames["P1"] # NoName

(***************************************************************************)
(* Workload 14: one command buffer is recorded and recorded again; the     *)
(* device may run out of memory for query pools at any time.               *)
(***************************************************************************)
\* The device has no memory left for a query pool.
ExhaustDeviceMemory ==
  /\ ~deviceMemoryExhausted
  /\ deviceMemoryExhausted' = TRUE
  /\ UNCHANGED << pc, loc, Mutexes, m_Config, Registries, m_pDevice, internalPipelines,
                  m_MetricsApiINTEL, m_PerformanceConfigurationINTEL, acquiredINTEL, failedAsserts,
                  m_CommandBuffers, m_DataAggregator, m_Data, Memory, m_CurrentFrame,
                  GpuVars, frameStats, calls, hist >>

NextBegin ==
  \/ AllocateCommandBuffers_Enter("t1", "poolA", << "cb1" >>)
  \/ AllocateCommandBuffers_Insert("t1")
  \/ BeginCommandBuffer("t1", "cb1")
  \/ \E rp \in RenderPassHandles : CmdBeginRenderPass("t1", "cb1", rp)
  \/ \E p \in PipelineHandles : CmdBindPipeline("t1", "cb1", p)
  \/ OpenKind("cb1") = "Pipeline" /\ CmdDraw("t1", "cb1")
  \/ CmdEndRenderPass("t1", "cb1")
  \/ EndCommandBuffer("t1", "cb1")
  \/ ExhaustDeviceMemory

SpecBegin == Init /\ [][NextBegin]_vars

\* A recorder that has just been begun: the root region, open, and nothing else.
FreshlyBegun(c) ==
  /\ c.state = "Recording"
  /\ Len(c.regions) = 1 /\ c.regions[1].kind = "CommandBuffer" /\ c.regions[1].parent = 0
  /\ c.stack = << 1 >>

\* C18: Begin resets the region stack to the root CommandBuffer region
\* without children, whatever the recorder held before; when the query
\* pool cannot be allocated Begin fails with ResourceExhausted and the
\* intercepted vkBeginCommandBuffer returns that error.
C18_BeginResetsOrFails ==
  [][ calls.recordings' # calls.recordings =>
        IF deviceMemoryExhausted
        THEN /\ hist.begin'.status = "ResourceExhausted"
             /\ hist.begin'.returned = VK_ERROR_OUT_OF_DEVICE_MEMORY
             /\ calls.recordings' = calls.recordings + 1
        ELSE \E h \in Handles :
               /\ m_CommandBuffers[h].state # "Recording"
               /\ FreshlyBegun(m_CommandBuffers[h]') ]_vars

(***************************************************************************)
(* Regions that never resolve, over Workload 2 (a command buffer that is   *)
(* recorded with draws and freed, submitted or not).                       *)
(***************************************************************************)
\* Nothing was ever submitted and every command buffer recorded so far has
\* been freed: no region recorded so far has resolved, and none will.
NeverSubmitted == calls.submits = 0 /\ Registered = {} /\ Len(hist.freed) > 0

\* The snapshots of freed command buffers are kept by the aggregator until
\* the frame is published, with every timestamp pending.
UnresolvedRetained ==
  \A k \in 1..Len(m_DataAggregator.folded) :
    /\ AllPending(m_DataAggregator.folded[k])
    /\ \E i \in 1..Len(hist.freed) : hist.freed[i].snap = m_DataAggregator.folded[k]

\* The totals of the aggregate count nothing of regions that are pending.
AggregateTotalsZero ==
  /\ m_DataAggregator.m_Stats = EmptyStats /\ m_DataAggregator.m_TopPipelines = << >>
  /\ m_Data.m_Stats = EmptyStats /\ m_Data.m_TopPipelines = << >>

Constructed ==
  \E fence \in { VK_NULL_HANDLE, "indeterminate" } :
    ProfilerState(VK_NULL_HANDLE, FALSE, {}, fence)

IsAvailable == m_pDevice # VK_NULL_HANDLE

\* CreateInternalPipeline, for all the types: naming a type that is
\* already named on the device fails, which is asserted and otherwise
\* ignored.
CreateInternalPipelines ==
  /\ internalPipelines' = internalPipelines \cup InternalPipelineTypes
  /\ failedAsserts' =
       IF internalPipelines \cap InternalPipelineTypes = {} THEN failedAsserts
       ELSE failedAsserts \cup { "CreateInternalPipeline" }

\* Initialize( pDevice, pCreateInfo ): fenceResult is what CreateFence
\* returns, intel whether the vendor extension is enabled and its backend
\* loads.  A failed CreateFence leaves the handle as it was or null.
Initialize(t, fenceResult, intel) ==
  /\ pc[t] = "idle" /\ calls.inits < MaxInits
  /\ Count("inits")
  /\ m_Config' = [ m_SyncMode |-> VK_PROFILER_SYNC_MODE_PRESENT_EXT,
                   m_Mode |-> VK_PROFILER_MODE_PER_DRAWCALL_EXT ]
  /\ IF fenceResult # VK_SUCCESS
     THEN /\ \E fence \in { m_SubmitFence, VK_NULL_HANDLE } :
               /\ m_CommandBuffers' = [ h \in Handles |-> NoCB ]
               /\ m_Allocations' = [ m \in MemoryHandles |-> NoAlloc ]
               /\ m_SubmitFence' = VK_NULL_HANDLE
               /\ m_CurrentFrame' = 0
               /\ m_pDevice' = VK_NULL_HANDLE
               /\ hist' = [ hist EXCEPT !.device =
                              [ op |-> "Initialize", failed |-> "fence",
                                error |-> fenceResult, returned |-> fenceResult,
                                destroyedFence |->
                                  IF fence # VK_NULL_HANDLE THEN fence ELSE "none" ],
                            !.live["m_CommandBuffers"] = {} ]
          /\ UNCHANGED << internalPipelines, m_MetricsApiINTEL, failedAsserts >>
     ELSE /\ m_pDevice' = "device"
          /\ m_CurrentFrame' = 0
          /\ m_SubmitFence' = "unsignaled"
          /\ m_MetricsApiINTEL' = intel
          /\ CreateInternalPipelines
          /\ hist' = [ hist EXCEPT !.device =
                         [ op |-> "Initialize",
                           failed |-> IF internalPipelines \cap InternalPipelineTypes = {}
                                      THEN "none" ELSE "pipeline",
                           error |-> "none", returned |-> VK_SUCCESS,
                           destroyedFence |-> "none" ] ]
          /\ UNCHANGED << m_CommandBuffers, m_Allocations >>
  /\ UNCHANGED << pc, loc, Mutexes, Registries, m_PerformanceConfigurationINTEL,
                  acquiredINTEL, deviceMemoryExhausted, m_DataAggregator, m_Data,
                  m_MemoryData, gpuQueue, frameStats >>

\* Destroy()
Destroy(t) ==
  /\ pc[t] = "idle"
  /\ m_CommandBuffers' = [ h \in Handles |-> NoCB ]
  /\ m_Allocations' = [ m \in MemoryHandles |-> NoAlloc ]
  /\ m_SubmitFence' = VK_NULL_HANDLE
  /\ m_CurrentFrame' = 0
  /\ m_pDevice' = VK_NULL_HANDLE
  /\ hist' = [ hist EXCEPT !.device =
                 [ op |-> "Destroy", failed |-> "none", error |-> "none",
                   returned |-> "none",
                   destroyedFence |->
                     IF m_SubmitFence # VK_NULL_HANDLE THEN m_SubmitFence ELSE "none" ],
               !.live["m_CommandBuffers"] = {} ]
  /\ UNCHANGED << pc, loc, Mutexes, m_Config, Registries, internalPipelines,
                  m_MetricsApiINTEL, m_PerformanceConfigurationINTEL, acquiredINTEL,
                  failedAsserts, deviceMemoryExhausted, m_DataAggregator, m_Data,
                  m_MemoryData, gpuQueue, frameStats, calls >>

\* The layer initializes a profiler that is not attached, uses it while it
\* is, and destroys it once the device is idle and its data is collected.
Quiescent ==
  /\ \A t \in Threads : pc[t] = "idle"
  /\ gpuQueue = << >> /\ m_DataAggregator.m_Submits = << >>

NextDevice ==
  \/ /\ ~IsAvailable
     /\ \E fenceResult \in { VK_SUCCESS, VK_ERROR_OUT_OF_DEVICE_MEMORY }, intel \in BOOLEAN :
          Initialize("t1", fenceResult, intel)
  \/ IsAvailable /\ Quiescent /\ Destroy("t1")
  \/ IsAvailable /\ AllocateCommandBuffers_Enter("t1", "poolA", << "cb1" >>)
  \/ AllocateCommandBuffers_Insert("t1")
  \/ IsAvailable /\ BeginCommandBuffer("t1", "cb1")
  \/ IsAvailable /\ FewRegions("cb1") /\ CmdDraw("t1", "cb1")
  \/ IsAvailable /\ EndCommandBuffer("t1", "cb1")
  \/ IsAvailable /\ QueueSubmit("t1", << << "cb1" >> >>)
  \/ PostSubmitCommandBuffers("t1")
  \/ IsAvailable /\ FinishFrame("t1")
  \/ GpuExecute
  \/ IsAvailable /\ \E syncMode \in SyncModes : SetSyncMode("t1", syncMode)

SpecDevice == Constructed /\ [][NextDevice]_vars

\* C20: an Initialize in which the creation of a device object failed (the
\* submit fence or an internal pipeline) has torn everything down and
\* returned the error, and the profiler is not available; after a
\* successful Initialize the profiler is available until Destroy, after
\* which it is not and the frame counter is 0.
C20_InitializeAllOrNothing ==
  /\ (hist.device.op = "Initialize" /\ hist.device.failed # "none") =>
       /\ hist.device.returned # VK_SUCCESS
       /\ hist.device.failed = "fence" => hist.device.returned = hist.device.error
       /\ ~IsAvailable /\ Registered = {} /\ m_SubmitFence = VK_NULL_HANDLE
       /\ m_CurrentFrame = 0
  /\ (hist.device.op = "Initialize" /\ hist.device.failed = "none") =>
       hist.device.returned = VK_SUCCESS /\ IsAvailable
  /\ hist.device.op = "Destroy" => ~IsAvailable /\ m_CurrentFrame = 0

(***************************************************************************)
(* Default pipeline names, over Workload 9.                                *)
(***************************************************************************)
\* The name SetDefaultPipelineObjectName builds for a pipeline.
DefaultNameOf(pipeline) ==
  SetDefaultPipelineObjectName([ p \in PipelineHandles |-> NoName ], pipeline)[pipeline.m_Handle]

\* C21: every registered pipeline (the application names none here) is
\* named VS=<hex>,PS=<hex> or CS=<hex> after the hashes of its own current
\* shader tuple, whatever was created and destroyed before.
C21_DefaultNameOfCurrentTuple ==
  \A p \in PipelineHandles :
    m_Pipelines[p] # NoPipeline => objectNames[p] = DefaultNameOf(m_Pipelines[p])

(***************************************************************************)
(* Workload 16: one thread registers, records and submits a command        *)
(* buffer, a second presents and frees command buffers, a third reads the  *)
(* published data.  Every thread that is inside a call keeps being         *)
(* scheduled and the GPU keeps executing what it was handed.               *)
(***************************************************************************)
\* The application does not submit a command buffer it is freeing.
NotBeingFreed(h) ==
  \A t \in Threads : pc[t] = "fcb_free" => h \notin Range(loc[t].arg)

\* One registration, one recording, one submission and one frame.
NextBlocking ==
  \/ calls.cbAllocs = 0 /\ AllocateCommandBuffers_Enter("t1", "poolA", << "cb1" >>)
  \/ AllocateCommandBuffers_Insert("t1")
  \/ calls.recordings = 0 /\ BeginCommandBuffer("t1", "cb1")
  \/ EndCommandBuffer("t1", "cb1")
  \/ calls.submits = 0 /\ NotBeingFreed("cb1") /\ QueueSubmit("t1", << << "cb1" >> >>)
  \/ PostSubmitCommandBuffers("t1")
  \/ (pc["t2"] # "idle" \/ m_CurrentFrame = 0) /\ FinishFrame("t2")
  \/ FreeCommandBuffers_Enter("t2", << "cb1" >>)
  \/ FreeCommandBuffers_Free("t2")
  \/ GetData("t3")
  \/ GpuExecute

\* The steps of a thread that is inside a call.
Continue(t) ==
  /\ pc[t] # "idle"
  /\ \/ AllocateCommandBuffers_Insert(t)
     \/ PostSubmitCommandBuffers(t)
     \/ FinishFrame(t)
     \/ FreeCommandBuffers_Free(t)
     \/ GetData(t)

SpecBlocking ==
  /\ Init /\ [][NextBlocking]_vars
  /\ \A t \in Threads : WF_vars(Continue(t))
  /\ WF_vars(GpuExecute)

\* A lock is held only by a thread that is inside a call.
HeldInsideCalls ==
  \A t \in Threads :
    pc[t] = "idle" =>
      /\ m_SubmitMutex # t /\ m_PresentMutex # t /\ m_DataMutex # t /\ cbLock # t

\* C22: every PostSubmit, FinishFrame, AllocateCommandBuffers,
\* FreeCommandBuffers and GetData call that has begun returns, whatever the
\* interleaving: the waits end once the GPU has signalled, and no thread
\* waits forever for the submit mutex, the present mutex, the registry lock
\* or the data lock; a thread that has returned holds none of them.
C22_CallsReturn ==
  /\ \A t \in Threads : (pc[t] # "idle") ~> (pc[t] = "idle")
  /\ []HeldInsideCalls

\* A submitter waits for the fence with the submit mutex, a presenter waits
\* for the data lock with the present mutex, and a reader holds the data lock.
C22_Witness ==
  /\ pc["t1"] = "ps_wait" /\ m_SubmitFence = "unsignaled" /\ m_SubmitMutex = "t1"
  /\ pc["t2"] = "ff_lockdata" /\ m_PresentMutex = "t2"
  /\ m_DataMutex = "t3"

(***************************************************************************)
(* Readback and GPU execution, over Workload 16.                           *)
(***************************************************************************)
\* The command buffers the aggregator has been handed and has not resolved.
PendingEntries(agg) ==
  { e.cb : e \in { x \in Range(EntriesOf(agg)) : x.pending } }

\* A thread whose next step is Aggregate().
AboutToAggregate(t) ==
  \/ pc[t] = "ff_aggregate"
  \/ pc[t] = "ps_final" /\ m_Config.m_SyncMode = VK_PROFILER_SYNC_MODE_SUBMIT_EXT

\* C23: when an Aggregate() begins, the GPU has executed every submission
\* it is going to resolve: none of the command buffers handed to the
\* aggregator is still waiting to be executed.
C23_ReadbackAfterExecution ==
  \A t \in Threads :
    AboutToAggregate(t) => PendingEntries(m_DataAggregator) \cap OnGpu = {}

(***************************************************************************)
(* PostSubmit and FinishFrame by synchronization mode, over Workload 11.   *)
(***************************************************************************)
SubmitWait == m_Config.m_SyncMode = VK_PROFILER_SYNC_MODE_SUBMIT_EXT

\* The fence entries the GPU has been handed.
FenceEntries(q) == { i \in 1..Len(q) : q[i].fence }

\* Thread t moves from one place of a call to another.
Moves(t, from, to) == pc[t] = from /\ pc'[t] = to

\* C24: in submit-wait mode PostSubmit queues the empty submission that
\* signals the profiler's fence and proceeds only once the fence is
\* signalled; then it marks the command buffers submitted and hands the
\* batch to the aggregator, releases the vendor handle and collects the
\* data.  In present-wait mode it queues nothing, does not wait and does
\* not collect; only FinishFrame waits, for the device to be idle, and
\* then collects.
C24_PostSubmitFollowsSyncMode ==
  [][ \A t \in Threads :
        /\ (pc[t] = "ps_enter" /\ pc'[t] # "ps_enter") =>
             IF SubmitWait
             THEN pc'[t] = "ps_wait"
                  /\ gpuQueue' = Append(gpuQueue, [ fence |-> TRUE, cbs |-> << >> ])
             ELSE pc'[t] = "ps_build" /\ gpuQueue' = gpuQueue
        /\ (pc[t] = "ps_wait" /\ pc'[t] # "ps_wait") =>
             /\ SubmitWait /\ m_SubmitFence = "signaled" /\ pc'[t] = "ps_build"
             /\ FenceEntries(gpuQueue) = {}
        /\ Moves(t, "ps_build", "ps_final") =>
             /\ \A h \in Range(Flatten(loc[t].arg)) : m_CommandBuffers'[h].state = "Submitted"
             /\ Len(m_DataAggregator'.m_Submits) = Len(m_DataAggregator.m_Submits) + 1
             /\ Range(Flatten(loc[t].arg)) \subseteq PendingEntries(m_DataAggregator')
             /\ SubmitWait => Range(Flatten(loc[t].arg)) \cap OnGpu = {}
        /\ Moves(t, "ps_final", "idle") =>
             /\ m_PerformanceConfigurationINTEL' = VK_NULL_HANDLE
             /\ IF SubmitWait
                THEN PendingEntries(m_DataAggregator') = {}
                ELSE m_DataAggregator' = m_DataAggregator
                     /\ m_CommandBuffers' = m_CommandBuffers
        /\ (pc[t] = "idle" /\ pc'[t] \in { "ff_wait", "ff_lockdata" }) =>
             (pc'[t] = "ff_wait" <=> ~SubmitWait)
        /\ (pc[t] = "ff_wait" /\ pc'[t] # "ff_wait") =>
             gpuQueue = << >> /\ pc'[t] = "ff_aggregate"
        /\ Moves(t, "ff_aggregate", "ff_lockdata") =>
             ~SubmitWait /\ PendingEntries(m_DataAggregator') = {}
    ]_vars

\* In submit-wait mode a PostSubmit has waited for the fence and collected
\* the data of its batch with the vendor handle released.
C24_Witness ==
  /\ SubmitWait /\ Len(hist.submitted) > 0
  /\ \A t \in Threads : pc[t] = "idle"
  /\ m_PerformanceConfigurationINTEL = VK_NULL_HANDLE
  /\ m_CommandBuffers["cb1"].state = "DataReady"
  /\ Len(m_DataAggregator.m_Submits) > 0 /\ PendingEntries(m_DataAggregator) = {}

(***************************************************************************)
(* Submission order, over Workload 7.                                      *)
(***************************************************************************)
\* The command buffers of a batch: per submit, the handles in order.
BatchHandles(b) ==
  [ i \in 1..Len(b.m_Submits) |->
      [ j \in 1..Len(b.m_Submits[i]) |-> b.m_Submits[i][j].cb ] ]

\* The submissions handed to the aggregator during frame k, in the order
\* of their PostSubmit calls, and the batches of the published frame k.
HandedDuring(k) ==
  LET during == SelectSeq(hist.submitted, LAMBDA e : e.frame = k)
  IN  [ i \in 1..Len(during) |-> during[i].cbs ]
PublishedDuring(k) ==
  [ i \in 1..Len(hist.published[k].m_Submits) |->
      Flatten(BatchHandles(hist.published[k].m_Submits[i])) ]

\* C25: the batch PostSubmit hands to the aggregator lists the submits in
\* the order of the submit-info array and the command buffers of each in
\* the order of its array, behind the batches handed before; the batches
\* of a published frame are in the order in which they were handed over.
C25_SubmissionOrderPreserved ==
  /\ [][ \A t \in Threads :
           Moves(t, "ps_build", "ps_final") =>
             LET old == m_DataAggregator.m_Submits
                 new == m_DataAggregator'.m_Submits
             IN  /\ Len(new) = Len(old) + 1
                 /\ BatchHandles(new[Len(new)]) = loc[t].arg
                 /\ \A k \in 1..Len(old) : BatchHandles(new[k]) = BatchHandles(old[k])
       ]_vars
  /\ [](\A k \in 1..Len(hist.published) : PublishedDuring(k) = HandedDuring(k))

\* A published frame with two batches, the first of them of two submits.
C25_Witness ==
  \E k \in 1..Len(hist.published) :
    /\ Len(hist.published[k].m_Submits) = 2
    /\ BatchHandles(hist.published[k].m_Submits[1]) = << << "cb2" >>, << "cb1" >> >>
    /\ BatchHandles(hist.published[k].m_Submits[2]) = << << "cb1", "cb2" >> >>

(***************************************************************************)
(* Publishing and resetting the aggregate, over Workload 3.                *)
(***************************************************************************)
\* What a frame accumulated is its own: the totals are those of the
\* snapshots folded, each of which is the data of an entry of one of the
\* frame's batches, and each ranked pipeline is a pipeline of one of them.
OwnContent(d) ==
  /\ d.m_Stats.m_TotalDrawCount =
       SumSeq([ i \in 1..Len(d.folded) |-> SnapshotDrawCount(d.folded[i]) ])
  /\ d.m_Stats.m_TotalTicks =
       SumSeq([ i \in 1..Len(d.folded) |-> SnapshotTicks(d.folded[i]) ])
  /\ \A i \in 1..Len(d.folded) :
       \E k \in 1..Len(EntriesOf(d)) : EntriesOf(d)[k].data = d.folded[i]
  /\ \A i \in 1..Len(d.m_TopPipelines) :
       \E j \in 1..Len(d.folded) :
         d.m_TopPipelines[i] \in Range(SnapshotPipelines(d.folded[j]))

\* The aggregator holds something accumulated.
Accumulated(agg) ==
  agg.m_Submits # << >> \/ agg.folded # << >> \/ agg.m_Stats # EmptyStats
    \/ agg.m_TopPipelines # << >>

\* C26: GetAggregatedData returns the accumulated frame and leaves the
\* aggregator as it was, so that a second call returns the same value;
\* Reset leaves nothing accumulated, so that a published frame holds only
\* the batches handed over during that frame and totals, regions and
\* ranked pipelines made from them; FinishFrame resets once, after it has
\* published the frame, and no other step clears the aggregator.
C26_ResetOncePerFrame ==
  /\ [][ \A t \in Threads :
           /\ Moves(t, "ff_assign", "ff_memory") =>
                /\ m_DataAggregator' = m_DataAggregator
                /\ m_Data' = GetAggregatedData(m_DataAggregator)
                /\ GetAggregatedData(m_DataAggregator') = m_Data'
           /\ Moves(t, "ff_reset", "idle") =>
                /\ ~Accumulated(m_DataAggregator')
                /\ GetAggregatedData(m_DataAggregator') = GetAggregatedData(EmptyAggregator)
                /\ Len(hist.published) = m_CurrentFrame
           /\ pc'[t] = "ff_reset" => pc[t] \in { "ff_cpu", "ff_reset" }
           /\ (pc[t] = "ff_reset" /\ pc'[t] # "ff_reset") => pc'[t] = "idle"
       ]_vars
  /\ [][ (Accumulated(m_DataAggregator) /\ ~Accumulated(m_DataAggregator')) =>
           \E t \in Threads : Moves(t, "ff_reset", "idle")
       ]_vars
  /\ [](\A k \in 1..Len(hist.published) :
          /\ PublishedDuring(k) = HandedDuring(k)
          /\ OwnContent(hist.published[k]))

\* Two frames were published and the aggregator reset after each; the
\* first holds one batch with a drawcall counted, the second one holds
\* nothing at all.
C26_Witness ==
  /\ Len(hist.published) = 2
  /\ \A t \in Threads : pc[t] = "idle"
  /\ Len(hist.published[1].m_Submits) = 1
  /\ hist.published[1].m_Stats.m_TotalDrawCount = 1
  /\ ~Accumulated(hist.published[2])
  /\ ~Accumulated(m_DataAggregator)

(***************************************************************************)
(* Workload 17: the pool-wide free taken one iteration at a time.  One     *)
(* thread allocates both command buffers from one pool, records into them  *)
(* and frees both; a second one frees a pool, wrapper by wrapper; a third  *)
(* one looks command buffers up.                                           *)
(***************************************************************************)
NextScan ==
  \/ \E pool \in Pools : AllocateCommandBuffers_Enter("t1", pool, << "cb1", "cb2" >>)
  \/ AllocateCommandBuffers_Insert("t1")
  \/ \E h \in Handles : BeginCommandBuffer("t1", h)
  \/ \E h \in Handles : EndCommandBuffer("t1", h)
  \/ FreeCommandBuffers_Enter("t1", << "cb1", "cb2" >>)
  \/ FreeCommandBuffers_Free("t1")
  \/ \E pool \in Pools : FreeCommandPool_Enter("t2", pool)
  \/ FreeCommandPool_Step("t2")
  \/ FreeCommandPool_Free("t2")
  \/ \E h \in Handles : GetCommandBuffer("t3", h)

SpecScan == Init /\ [][NextScan]_vars

\* The two command buffers are allocated together and freed together:
\* with one of them registered and the other not, a free is half done.
PartlyFreed == Cardinality(Registered) = 1

\* A step in which a thread looks a command buffer up, by itself or to
\* record into it, or enters an allocation or a free.
ObservesRegistry ==
  \/ \E t \in Threads, h \in Handles : GetCommandBuffer(t, h)
  \/ \E t \in Threads, h \in Handles :
       BeginCommandBuffer(t, h) \/ EndCommandBuffer(t, h)
  \/ \E t \in Threads :
       pc[t] = "idle" /\ pc'[t] \in { "acb_insert", "fcb_free", "fcp_free" }

\* C27: FreeCommandBuffers(pool) holds the registry lock from before its
\* scan until the scan is over; while some and not all of the wrappers of
\* the pool are removed, the scanning thread holds the lock, and no
\* lookup, allocation or free of another thread takes a step.
C27_PoolFreeAtomic ==
  /\ [](\A t \in Threads : pc[t] = "fcp_free" => cbLock = t)
  /\ [](PartlyFreed => \E t \in Threads : pc[t] = "fcp_free" /\ cbLock = t)
  /\ [][ (PartlyFreed \/ PartlyFreed') =>
           /\ \E t \in Threads : pc[t] = "fcp_free" /\ pc'[t] \in { "fcp_free", "idle" }
           /\ ~ObservesRegistry
       ]_vars

\* The scan of a pool with two wrappers has freed one of them and not yet
\* the other, after a lookup that found the freed one.
C27_Witness ==
  /\ PartlyFreed /\ pc["t2"] = "fcp_free"
  /\ hist.lookup.status = "Ok" /\ m_CommandBuffers[hist.lookup.handle] = NoCB

(***************************************************************************)
(* Regions and the commands they time, over Workload 10.                   *)
(***************************************************************************)
\* The commands of one name that went down the chain, and the regions of
\* one kind, both in issue order: the k-th of the one belongs to the k-th
\* of the other.
IssuedOf(c, cmd) == SelectSeq(c.issued, LAMBDA e : e.cmd = cmd)
RegionsOf(c, kind) == SelectSeq(c.regions, LAMBDA r : r.kind = kind)

\* The begin query of the k-th region of `kind` is written before the k-th
\* command `cmd`; its end query, once written, is written after it.
PushedBefore(c, cmd, kind) ==
  \A k \in 1..Len(IssuedOf(c, cmd)) :
    /\ k <= Len(RegionsOf(c, kind))
    /\ RegionsOf(c, kind)[k].bq <= IssuedOf(c, cmd)[k].after
PoppedAfter(c, cmd, kind) ==
  \A k \in 1..Len(IssuedOf(c, cmd)) :
    /\ k <= Len(RegionsOf(c, kind))
    /\ RegionsOf(c, kind)[k].eq # 0 => RegionsOf(c, kind)[k].eq > IssuedOf(c, cmd)[k].after

\* The begin query of the k-th pipeline region is written after the k-th
\* bind went down the chain, with nothing in between but the end query of
\* the pipeline region that was open.
PushedRightAfter(c, cmd, kind) ==
  \A k \in 1..Len(IssuedOf(c, cmd)) :
    /\ k <= Len(RegionsOf(c, kind))
    /\ LET r == RegionsOf(c, kind)[k]
           a == IssuedOf(c, cmd)[k].after
       IN  /\ r.bq > a
           /\ \A q \in (a + 1)..(r.bq - 1) :
                \E j \in 1..(k - 1) : RegionsOf(c, kind)[j].eq = q
           /\ \A e \in Range(c.issued) : e.after <= a \/ e.after >= r.bq

\* Regions open and close in LIFO order: a region begins after its parent
\* and, if its parent is closed, it was closed before.
StrictlyNested(c) ==
  \A i \in 1..Len(c.regions) :
    LET r == c.regions[i]
    IN  r.parent # 0 =>
          /\ r.parent < i /\ c.regions[r.parent].bq < r.bq
          /\ c.regions[r.parent].eq # 0 => (r.eq # 0 /\ r.eq < c.regions[r.parent].eq)
          /\ r.eq = 0 => i \in Range(c.stack) /\ r.parent \in Range(c.stack)

\* C28 (as stated): the region of a render pass, of a pipeline bind and of
\* a draw is pushed before its command goes down the chain and popped
\* after it, and the regions nest in LIFO order.
C28_PushBeforeIssue ==
  \A h \in Handles :
    LET c == m_CommandBuffers[h]
    IN  c # NoCB =>
          /\ PushedBefore(c, "CmdBeginRenderPass", "RenderPass")
          /\ PoppedAfter(c, "CmdEndRenderPass", "RenderPass")
          /\ PushedBefore(c, "CmdDraw", "Drawcall") /\ PoppedAfter(c, "CmdDraw", "Drawcall")
          /\ PushedBefore(c, "CmdBindPipeline", "Pipeline")
          /\ PoppedAfter(c, "CmdBindPipeline", "Pipeline")
          /\ StrictlyNested(c)

\* C28 (amended): the region of a render pass is pushed before
\* CmdBeginRenderPass goes down the chain and popped after CmdEndRenderPass
\* did; the region of a draw is pushed before the draw and popped after
\* it; CmdBindPipeline goes down the chain first, and the pipeline region
\* is pushed right after it, once the pipeline region that was open is
\* popped; the regions nest in LIFO order.
C28_PushAroundIssue ==
  \A h \in Handles :
    LET c == m_CommandBuffers[h]
    IN  c # NoCB =>
          /\ PushedBefore(c, "CmdBeginRenderPass", "RenderPass")
          /\ PoppedAfter(c, "CmdEndRenderPass", "RenderPass")
          /\ PushedBefore(c, "CmdDraw", "Drawcall") /\ PoppedAfter(c, "CmdDraw", "Drawcall")
          /\ \A k \in 1..Len(IssuedOf(c, "CmdDraw")) :
               RegionsOf(c, "Drawcall")[k].eq = IssuedOf(c, "CmdDraw")[k].after + 1
          /\ PushedRightAfter(c, "CmdBindPipeline", "Pipeline")
          /\ PoppedAfter(c, "CmdBindPipeline", "Pipeline")
          /\ StrictlyNested(c)

\* A recording with a render pass, a bind and a draw under it, and
\* everything closed.
C28_Witness ==
  LET c == m_CommandBuffers["cb1"]
  IN  /\ c # NoCB /\ c.state = "Ended"
      /\ Len(IssuedOf(c, "CmdBeginRenderPass")) = 1
      /\ Len(IssuedOf(c, "CmdEndRenderPass")) = 1
      /\ Len(IssuedOf(c, "CmdBindPipeline")) = 1
      /\ Len(IssuedOf(c, "CmdDraw")) = 1
      /\ c.regions[RegionsOf(c, "Drawcall")[1].parent].kind = "Pipeline"
      /\ RegionsOf(c, "Pipeline")[1].bq = IssuedOf(c, "CmdBindPipeline")[1].after + 1

(***************************************************************************)
(* Pipeline regions, over Workload 10.                                     *)
(***************************************************************************)
\* The index of the k-th region of `kind`, and how many of the first i
\* commands that went down the chain were `cmd`.
RegionIndex(c, kind, k) ==
  CHOOSE i \in 1..Len(c.regions) :
    /\ c.regions[i].kind = kind
    /\ Cardinality({ j \in 1..i : c.regions[j].kind = kind }) = k
CountUpTo(c, cmd, i) == Cardinality({ j \in 1..i : c.issued[j].cmd = cmd })

\* The commands at which an open pipeline region ends: the next bind, the
\* boundaries of a render pass and the end of the recording.
PipelineBoundaries ==
  { "CmdBindPipeline", "CmdBeginRenderPass", "CmdEndRenderPass", "EndCommandBuffer" }

\* The first boundary behind position b of the command stream, or 0.
NextBoundary(c, b) ==
  LET later == { j \in (b + 1)..Len(c.issued) : c.issued[j].cmd \in PipelineBoundaries }
  IN  IF later = {} THEN 0 ELSE CHOOSE j \in later : \A i \in later : j <= i

OpenPipelines(c) == { i \in Range(c.stack) : c.regions[i].kind = "Pipeline" }

\* The region of the bind at position b: open while no boundary follows
\* and the recording goes on, closed at the first boundary and not
\* before; the draws up to that boundary are its children.
BindRegionSpan(c, b) ==
  LET pi == RegionIndex(c, "Pipeline", CountUpTo(c, "CmdBindPipeline", b))
      P == c.regions[pi]
      j == NextBoundary(c, b)
      last == IF j = 0 THEN Len(c.issued) ELSE j - 1
  IN  /\ IF j = 0
         THEN c.state = "Recording" /\ P.eq = 0 /\ OpenPipelines(c) = { pi }
         ELSE /\ P.eq # 0 /\ P.eq <= c.issued[j].after + 1
              /\ P.eq > c.issued[j - 1].after
      /\ \A d \in (b + 1)..last :
           LET D == c.regions[RegionIndex(c, "Drawcall", CountUpTo(c, "CmdDraw", d))]
           IN  /\ c.issued[d].cmd = "CmdDraw"
               /\ D.parent = pi /\ P.bq < D.bq /\ D.eq # 0
               /\ P.eq # 0 => D.eq < P.eq

NextEnd ==
  \/ AllocateCommandBuffers_Enter("t1", "poolA", << "cb1" >>)
  \/ AllocateCommandBuffers_Insert("t1")
  \/ BeginCommandBuffer("t1", "cb1")
  \/ \E rp \in RenderPassHandles : CmdBeginRenderPass("t1", "cb1", rp)
  \/ \E p \in PipelineHandles : CmdBindPipeline("t1", "cb1", p)
  \/ CmdDraw("t1", "cb1")
  \/ CmdEndRenderPass("t1", "cb1")
  \/ EndCommandBuffer_Any("t1", "cb1")

SpecEnd == Init /\ [][NextEnd]_vars

\* Every region has its two queries, the end one after the begin one and
\* within its parent's; the root's end query is the last query written.
AllClosed(c) ==
  /\ c.stack = << >>
  /\ \A i \in 1..Len(c.regions) :
       LET r == c.regions[i]
       IN  /\ r.bq # 0 /\ r.eq # 0 /\ r.bq < r.eq
           /\ r.parent # 0 => r.eq < c.regions[r.parent].eq
  /\ c.regions[1].kind = "CommandBuffer" /\ c.regions[1].parent = 0
  /\ c.regions[1].eq = c.queries
  /\ \A i \in 2..Len(c.regions) : c.regions[i].eq < c.regions[1].eq

\* C30: EndCommandBuffer closes every region that is open, innermost
\* first and the root last, whatever was recorded: afterwards no region is
\* open, every region has a begin and an end query, the root's end query
\* is the last one written and precedes the command that ends the command
\* buffer, the recorder is Ended, the tree is the one that was recorded
\* and its timestamps are all pending.
C30_EndClosesEverything ==
  /\ [][ \A h \in Handles :
           (Recording(h) /\ m_CommandBuffers'[h] # NoCB
              /\ m_CommandBuffers'[h].state # "Recording") =>
             LET c == m_CommandBuffers[h]
                 e == m_CommandBuffers'[h]
             IN  /\ e.state = "Ended"
                 /\ AllClosed(e)
                 /\ Shape(e.regions) = Shape(c.regions)
                 /\ \A i \in 1..Len(c.regions) :
                      /\ e.regions[i].bq = c.regions[i].bq
                      /\ c.regions[i].eq # 0 => e.regions[i].eq = c.regions[i].eq
                      /\ c.regions[i].eq = 0 => e.regions[i].eq > c.queries
                 /\ e.queries = c.queries + Len(c.stack)
                 /\ Top(e.issued) = [ cmd |-> "EndCommandBuffer", after |-> e.queries ]
                 /\ AllPending(RecorderGetData(e))
       ]_vars
  /\ [](\A h \in Handles :
          (m_CommandBuffers[h] # NoCB /\ m_CommandBuffers[h].state = "Ended") =>
            AllClosed(m_CommandBuffers[h]) /\ AllPending(RecorderGetData(m_CommandBuffers[h])))

\* A recording was ended with its render pass not ended and a pipeline
\* bound in it: the four regions are closed, the pipeline's first and the
\* root last.
C30_Witness ==
  LET c == m_CommandBuffers["cb1"]
  IN  /\ c # NoCB /\ c.state = "Ended"
      /\ [ i \in 1..Len(c.issued) |-> c.issued[i].cmd ] =
           << "CmdBeginRenderPass", "CmdBindPipeline", "EndCommandBuffer" >>
      /\ [ i \in 1..Len(c.regions) |-> c.regions[i].eq ] = << 8, 7, 6, 5 >>
      /\ c.stack = << >>

(***************************************************************************)
(* Workload 19: render passes created from VkRenderPassCreateInfo2, whose  *)
(* subpasses may carry a depth-stencil resolve in their pNext chain.       *)
(***************************************************************************)
VK_RESOLVE_MODE_NONE == "VK_RESOLVE_MODE_NONE"
ResolveModes ==
  { VK_RESOLVE_MODE_NONE, "VK_RESOLVE_MODE_SAMPLE_ZERO_BIT", "VK_RESOLVE_MODE_AVERAGE_BIT" }
VK_STRUCTURE_TYPE_SUBPASS_DESCRIPTION_DEPTH_STENCIL_RESOLVE ==
  "VK_STRUCTURE_TYPE_SUBPASS_DESCRIPTION_DEPTH_STENCIL_RESOLVE"

\* VkSubpassDescriptionDepthStencilResolve: the attachment pointer may be
\* null, and the attachment it points to may be unused.
DepthStencilResolves ==
  [ sType : { VK_STRUCTURE_TYPE_SUBPASS_DESCRIPTION_DEPTH_STENCIL_RESOLVE },
    hasDepthStencilResolveAttachment : BOOLEAN,
    attachment : { VK_ATTACHMENT_UNUSED, 1 },
    depthResolveMode : ResolveModes, stencilResolveMode : ResolveModes ]
\* A structure of another type in the chain.
OtherStructure ==
  [ sType |-> "VK_STRUCTURE_TYPE_FRAGMENT_SHADING_RATE_ATTACHMENT_INFO_KHR",
    hasDepthStencilResolveAttachment |-> TRUE, attachment |-> 1,
    depthResolveMode |-> "VK_RESOLVE_MODE_AVERAGE_BIT",
    stencilResolveMode |-> "VK_RESOLVE_MODE_SAMPLE_ZERO_BIT" ]
\* The pNext chains of a subpass: a structure type occurs once at most.
PNextChains ==
  { << >>, << OtherStructure >> } \cup
  { << d >> : d \in DepthStencilResolves } \cup
  { << OtherStructure, d >> : d \in DepthStencilResolves }

SubpassDescriptions2 ==
  { [ hasResolveAttachments |-> sp.hasResolveAttachments,
      resolveAttachments |-> sp.resolveAttachments, pNext |-> chain ] :
      sp \in SubpassDescriptions, chain \in PNextChains }

\* A count that takes a resolve of both aspects for one, whatever the modes.
CountDepthStencilResolve_Once(subpass, it) ==
  IF it.sType = VK_STRUCTURE_TYPE_SUBPASS_DESCRIPTION_DEPTH_STENCIL_RESOLVE
       /\ it.hasDepthStencilResolveAttachment /\ it.attachment # VK_ATTACHMENT_UNUSED
       /\ (it.depthResolveMode # VK_RESOLVE_MODE_NONE
             \/ it.stencilResolveMode # VK_RESOLVE_MODE_NONE)
  THEN [ subpass EXCEPT !.m_ResolveCount = @ + 1 ]
  ELSE subpass

\* One structure of the chain: what the depth-stencil resolve adds.
CountDepthStencilResolve(subpass, it) ==
  IF it.sType = VK_STRUCTURE_TYPE_SUBPASS_DESCRIPTION_DEPTH_STENCIL_RESOLVE
       /\ it.hasDepthStencilResolveAttachment /\ it.attachment # VK_ATTACHMENT_UNUSED
  THEN LET any == IF it.depthResolveMode # VK_RESOLVE_MODE_NONE
                       \/ it.stencilResolveMode # VK_RESOLVE_MODE_NONE
                  THEN 1 ELSE 0
           independent == IF it.depthResolveMode # VK_RESOLVE_MODE_NONE
                               /\ it.stencilResolveMode # VK_RESOLVE_MODE_NONE
                               /\ it.stencilResolveMode # it.depthResolveMode
                          THEN 1 ELSE 0
       IN  [ subpass EXCEPT !.m_ResolveCount = @ + any + independent ]
  ELSE subpass

\* for( const auto& it : PNextIterator( subpass.pNext ) )
RECURSIVE CountPNext(_, _)
CountPNext(subpass, chain) ==
  IF chain = << >> THEN subpass
  ELSE CountPNext(CountDepthStencilResolve(subpass, Head(chain)), Tail(chain))

\* The render-pass description CreateRenderPass stores for a create info 2.
DeviceProfilerRenderPass2(renderPass, createInfo) ==
  CountRenderPassAttachmentClears(
    [ m_Handle |-> renderPass,
      m_Subpasses |-> [ i \in 1..Len(createInfo.subpasses) |->
                          CountPNext(
                            CountSubpassAttachmentResolves(
                              [ m_Index |-> i - 1, m_ResolveCount |-> 0 ],
                              createInfo.subpasses[i]),
                            createInfo.subpasses[i].pNext) ],
      m_ClearColorAttachmentCount |-> 0,
      m_ClearDepthStencilAttachmentCount |-> 0 ],
    createInfo.attachments)

\* CreateRenderPass( renderPass, const VkRenderPassCreateInfo2* )
CreateRenderPass2(t, renderPass, createInfo) ==
  /\ pc[t] = "idle"
  /\ m_RenderPasses[renderPass] = NoRenderPass
  /\ m_RenderPasses' =
       [ m_RenderPasses EXCEPT ![renderPass] = DeviceProfilerRenderPass2(renderPass, createInfo) ]
  /\ hist' = [ hist EXCEPT !.createInfo[renderPass] = createInfo,
                           !.live.m_RenderPasses = @ \cup { renderPass } ]
  /\ UNCHANGED << m_Pipelines, m_ShaderModuleHashes, objectNames, Device, pc, loc, Mutexes, m_Config,
                  m_CommandBuffers, m_DataAggregator, m_Data,
                  Memory, m_CurrentFrame, GpuVars, frameStats, calls >>

NextRenderPass2 ==
  \/ \E rp \in RenderPassHandles, sp \in SubpassDescriptions :
       CreateRenderPass("t1", rp, [ attachments |-> << >>, subpasses |-> << sp >> ])
  \/ \E rp \in RenderPassHandles, sp \in SubpassDescriptions2 :
       CreateRenderPass2("t1", rp, [ attachments |-> << >>, subpasses |-> << sp >> ])
  \/ \E rp \in RenderPassHandles : DestroyRenderPass("t1", rp)

SpecRenderPass2 == Init /\ [][NextRenderPass2]_vars

\* The color attachments of a subpass that are resolved.
ColorResolves(sp) ==
  IF sp.hasResolveAttachments
  THEN Len(SelectSeq(sp.resolveAttachments, LAMBDA a : a # VK_ATTACHMENT_UNUSED))
  ELSE 0

\* The depth-stencil resolve structures of a subpass that name a used
\* attachment (none for a subpass of a VkRenderPassCreateInfo).
UsedDepthStencilResolves(sp) ==
  IF "pNext" \in DOMAIN sp
  THEN SelectSeq(sp.pNext,
         LAMBDA it : /\ it.sType = VK_STRUCTURE_TYPE_SUBPASS_DESCRIPTION_DEPTH_STENCIL_RESOLVE
                     /\ it.hasDepthStencilResolveAttachment
                     /\ it.attachment # VK_ATTACHMENT_UNUSED)
  ELSE << >>

\* What the modes of a depth-stencil resolve count for.
ModesCount(it) ==
  CASE it.depthResolveMode = VK_RESOLVE_MODE_NONE
         /\ it.stencilResolveMode = VK_RESOLVE_MODE_NONE -> 0
    [] it.depthResolveMode # VK_RESOLVE_MODE_NONE
         /\ it.stencilResolveMode # VK_RESOLVE_MODE_NONE
         /\ it.depthResolveMode # it.stencilResolveMode -> 2
    [] OTHER -> 1

\* C31: the resolve count of a subpass is the number of its color
\* attachments whose resolve attachment is not unused (zero without resolve
\* attachments) plus, for a depth-stencil resolve with a used attachment,
\* 0 when both modes are none, 2 when both are not none and differ, and 1
\* otherwise.
C31_SubpassResolveCount ==
  \A rp \in RenderPassHandles :
    m_RenderPasses[rp] # NoRenderPass =>
      LET sps == hist.createInfo[rp].subpasses
      IN  /\ Len(m_RenderPasses[rp].m_Subpasses) = Len(sps)
          /\ \A i \in 1..Len(sps) :
               m_RenderPasses[rp].m_Subpasses[i].m_ResolveCount =
                 ColorResolves(sps[i]) +
                 (IF UsedDepthStencilResolves(sps[i]) = << >> THEN 0
                  ELSE ModesCount(UsedDepthStencilResolves(sps[i])[1]))

\* A subpass with a resolved color attachment and an independent
\* depth-stencil resolve, behind another structure in the chain: count 3.
C31_Witness ==
  /\ m_RenderPasses["RP1"] # NoRenderPass
  /\ "pNext" \in DOMAIN hist.createInfo["RP1"].subpasses[1]
  /\ Len(hist.createInfo["RP1"].subpasses[1].pNext) = 2
  /\ ColorResolves(hist.createInfo["RP1"].subpasses[1]) = 1
  /\ ModesCount(hist.createInfo["RP1"].subpasses[1].pNext[2]) = 2
  /\ m_RenderPasses["RP1"].m_Subpasses[1].m_ResolveCount = 3

(***************************************************************************)
(* Submitted and then freed, over Workload 2.                              *)
(***************************************************************************)
\* Every command buffer freed during frame k had been submitted during
\* frame k, and no handle was freed twice during frame k (a handle freed
\* twice had been allocated anew in between).
FreedWereSubmitted(k) ==
  /\ \A i \in 1..Len(hist.freed) :
       hist.freed[i].frame = k =>
         \E j \in 1..Len(hist.submitted) :
           hist.submitted[j].frame = k /\ hist.freed[i].cb \in Range(hist.submitted[j].cbs)
  /\ \A i, j \in 1..Len(hist.freed) :
       (hist.freed[i].frame = k /\ hist.freed[j].frame = k
          /\ hist.freed[i].cb = hist.freed[j].cb) => i = j

\* What the submissions of a published frame amount to, each taken once.
SubmittedDrawCount(d) ==
  SumSeq([ i \in 1..Len(EntriesOf(d)) |-> SnapshotDrawCount(EntriesOf(d)[i].data) ])
SubmittedTicks(d) ==
  SumSeq([ i \in 1..Len(EntriesOf(d)) |-> SnapshotTicks(EntriesOf(d)[i].data) ])

\* C32: in submit-wait mode every submission of a command buffer
\* contributes its data to the totals of its frame once, also when the
\* command buffer is freed later in that frame: the totals of a published
\* frame are those of the entries of its submit batches.
C32_SubmissionCountedOnce ==
  \A k \in 1..Len(hist.published) :
    (SubmitWait /\ FreedWereSubmitted(k)) =>
      /\ hist.published[k].m_Stats.m_TotalDrawCount = SubmittedDrawCount(hist.published[k])
      /\ hist.published[k].m_Stats.m_TotalTicks = SubmittedTicks(hist.published[k])

(***************************************************************************)
(* Submissions at the frame boundary, over Workload 16.                    *)
(***************************************************************************)
\* The batches of the frames published so far, in order, and the batches
\* the aggregator holds for the frame that is being accumulated.
RECURSIVE PublishedUpTo(_)
PublishedUpTo(k) == IF k = 0 THEN << >> ELSE PublishedUpTo(k - 1) \o PublishedDuring(k)

Accumulating ==
  [ i \in 1..Len(m_DataAggregator.m_Submits) |->
      Flatten(BatchHandles(m_DataAggregator.m_Submits[i])) ]

HandedOver == [ i \in 1..Len(hist.submitted) |-> hist.submitted[i].cbs ]

InFinishFrame(t) ==
  pc[t] \in { "ff_wait", "ff_aggregate", "ff_lockdata", "ff_assign", "ff_memory", "ff_cpu",
              "ff_reset" }

\* C33: no submission is lost at a frame boundary.  Whenever no FinishFrame
\* is in progress, every batch PostSubmit handed to the aggregator is in
\* one published frame or is held for the frame being accumulated, and in
\* no two of them.
C33_NoSubmissionLost ==
  (\A t \in Threads : ~InFinishFrame(t)) =>
    PublishedUpTo(Len(hist.published)) \o Accumulating = HandedOver

(***************************************************************************)
(* Recorded again before the frame ends, over Workload 4.                  *)
(***************************************************************************)
\* The submissions handed to the aggregator during frame k, whole.
SubmissionsDuring(k) == SelectSeq(hist.submitted, LAMBDA e : e.frame = k)

\* Batch i of the published frame k shows, for each of its command
\* buffers, the region tree recorded when submission i of frame k was made.
ShowsOwnRecording(k, i) ==
  LET es == BatchEntries(hist.published[k].m_Submits[i])
  IN  \A j \in 1..Len(es) :
        Shape(es[j].data.regions)
          = RecordedAlone(es[j].cb, SubmissionsDuring(k)[i].cmds[es[j].cb])

\* FinishFrame has just published a frame and every recording begun so far
\* was completed with End.
PublishedWithRecordingsEnded ==
  /\ \E t \in Threads : pc[t] = "ff_reset"
  /\ \A h \in Registered :
       hist.cmds[h] # << >> /\ hist.cmds[h][Len(hist.cmds[h])] = << "End" >>

\* C34: in present-wait mode each submission of a frame appears in the
\* published frame with the region tree that was recorded for it, also
\* when the command buffer was recorded again (Begin ... End) before
\* FinishFrame.
C34_SubmissionKeepsItsRecording ==
  LET k == Len(hist.published)
  IN  ( /\ PublishedWithRecordingsEnded /\ ~SubmitWait
        /\ Len(hist.published[k].m_Submits) = Len(SubmissionsDuring(k)) ) =>
        \A i \in 1..Len(SubmissionsDuring(k)) : ShowsOwnRecording(k, i)

(***************************************************************************)
(* Workload 20: two threads record one command buffer each and submit it,  *)
(* each with its own vkQueueSubmit, in either synchronization mode; a      *)
(* third thread presents.                                                  *)
(***************************************************************************)
NextFence ==
  \/ AllocateCommandBuffers_Enter("t1", "poolA", << "cb1", "cb2" >>)
  \/ AllocateCommandBuffers_Insert("t1")
  \/ \E t \in {"t1", "t2"} :
       \/ Registered = Handles /\ BeginCommandBuffer(t, RecordedBy(t))
       \/ EndCommandBuffer(t, RecordedBy(t))
       \/ QueueSubmit(t, << << RecordedBy(t) >> >>)
       \/ PostSubmitCommandBuffers(t)
  \/ FinishFrame("t3")
  \/ GpuExecute

SpecFence == Init /\ [][NextFence]_vars

\* The threads that are between the empty submission and the end of the
\* fence wait of a PostSubmit.
FenceWaiters == { t \in Threads : pc[t] = "ps_wait" }

\* C35: the submit fence is used by one PostSubmit at a time and is
\* unsignalled whenever it is handed to the empty submission.  Outside the
\* fence wait the fence is unsignalled and no empty submission is queued;
\* inside it, the one waiting thread holds the submit mutex and either its
\* own empty submission is queued and the fence is unsignalled, or that
\* submission has executed and the fence is signalled.
C35_FenceUsedByOneCall ==
  /\ Cardinality(FenceWaiters) <= 1
  /\ Cardinality(FenceEntries(gpuQueue)) <= 1
  /\ \A t \in FenceWaiters : m_SubmitMutex = t /\ SubmitWait
  /\ IF FenceWaiters = {}
     THEN m_SubmitFence = "unsignaled" /\ FenceEntries(gpuQueue) = {}
     ELSE \/ m_SubmitFence = "unsignaled" /\ FenceEntries(gpuQueue) # {}
          \/ m_SubmitFence = "signaled" /\ FenceEntries(gpuQueue) = {}

\* One thread's PostSubmit has waited, reset the fence and handed its batch
\* over; the other thread's empty submission has executed and signalled the
\* fence anew, while the first thread is entering PostSubmit again.
C35_Witness ==
  /\ SubmitWait
  /\ Len(hist.submitted) = 1 /\ hist.submitted[1].cbs = << "cb1" >>
  /\ pc["t2"] = "ps_wait" /\ m_SubmitFence = "signaled"
  /\ pc["t1"] = "idle"

(***************************************************************************)
(* Workload 21: one thread registers, records and submits a command        *)
(* buffer, once each, and presents; a second frees command buffers by      *)
(* handle, whether registered or not, and by pool.                         *)
(***************************************************************************)
FreedHandles ==
  { << "cb1" >>, << "cb2" >>, << "cb1", "cb1" >>, << "cb2", "cb1" >>, << "cb1", "cb2" >> }

NextFreeAny ==
  \/ calls.cbAllocs = 0 /\ AllocateCommandBuffers_Enter("t1", "poolA", << "cb1" >>)
  \/ AllocateCommandBuffers_Insert("t1")
  \/ calls.recordings = 0 /\ BeginCommandBuffer("t1", "cb1")
  \/ EndCommandBuffer("t1", "cb1")
  \/ calls.submits = 0 /\ QueueSubmit("t1", << << "cb1" >> >>)
  \/ PostSubmitCommandBuffers("t1")
  \/ (pc["t1"] # "idle" \/ m_CurrentFrame = 0) /\ FinishFrame("t1")
  \/ \E hs \in FreedHandles : FreeCommandBuffers_EnterAny("t2", hs)
  \/ FreeCommandBuffers_FreeAny("t2")
  \/ FreeCommandPool_Enter("t2", "poolA")
  \/ FreeCommandPool_Free("t2")
  \/ GpuExecute

SpecFreeAny == Init /\ [][NextFreeAny]_vars

\* The handles of a call that are registered when their turn comes are
\* freed, the others are passed over.
RECURSIVE FreeRegistered(_, _)
FreeRegistered(st, hs) ==
  IF hs = << >> THEN st
  ELSE FreeRegistered(IF st.cbs[Head(hs)] # NoCB THEN FreeCommandBuffer(st, Head(hs)) ELSE st,
                      Tail(hs))

\* C36: FreeCommandBuffers(count, handles) appends no data and removes
\* nothing for a handle that is not in the registry, and frees the
\* registered handles of the call: the call returns with the registry and
\* the aggregator as freeing the registered handles alone leaves them.
C36_UnregisteredHandleIgnored ==
  [][ \A t \in Threads :
        (pc[t] = "fcb_any" /\ pc'[t] # "fcb_any") =>
          /\ pc'[t] = "idle"
          /\ m_CommandBuffers' = FreeRegistered(FreeState, loc[t].arg).cbs
          /\ m_DataAggregator' = FreeRegistered(FreeState, loc[t].arg).agg ]_vars

(***************************************************************************)
(* Workload 22: two threads allocate and free device memory, handles that  *)
(* are tracked and handles that are not.                                   *)
(***************************************************************************)
NextMemory ==
  \E t \in {"t1", "t2"} :
    \/ \E m \in MemoryHandles, type \in MemoryTypes, size \in AllocationSizes :
         calls.allocs < MaxMemoryCalls /\ AllocateMemory_Any(t, m, type, size)
    \/ AllocateMemory_Total(t)
    \/ \E m \in MemoryHandles : FreeMemory_Enter(t, m) \/ FreeMemory_NotFound(t, m)
    \/ FreeMemory_Total(t)
    \/ FreeMemory_Return(t)

SpecMemory == Init /\ [][NextMemory]_vars

\* The tracked allocations, all of them and those of a type or of a heap.
Tracked == { m \in MemoryHandles : m_Allocations[m] # NoAlloc }
TrackedOfType(type) == { m \in Tracked : m_Allocations[m].memoryTypeIndex = type }
TrackedOfHeap(heap) == { m \in Tracked : HeapIndex(m_Allocations[m].memoryTypeIndex) = heap }

RECURSIVE SizeOf(_)
SizeOf(ms) ==
  IF ms = {} THEN 0
  ELSE LET m == CHOOSE x \in ms : TRUE
       IN  m_Allocations[m].allocationSize + SizeOf(ms \ {m})

CounterOf(ms) == [ m_AllocationCount |-> Cardinality(ms), m_AllocationSize |-> SizeOf(ms) ]

RECURSIVE SumCounters(_, _)
SumCounters(counters, indices) ==
  IF indices = {} THEN ZeroCounter
  ELSE LET i == CHOOSE x \in indices : TRUE
           rest == SumCounters(counters, indices \ {i})
       IN  [ m_AllocationCount |-> counters[i].m_AllocationCount + rest.m_AllocationCount,
             m_AllocationSize |-> counters[i].m_AllocationSize + rest.m_AllocationSize ]

TotalCounter(memory) ==
  [ m_AllocationCount |-> memory.m_TotalAllocationCount,
    m_AllocationSize |-> memory.m_TotalAllocationSize ]

\* Between calls the counters are those of the tracked allocations: per
\* heap, per type and in total.
MemoryConsistent ==
  allocLock = NoThread =>
    /\ TotalCounter(m_MemoryData) = CounterOf(Tracked)
    /\ TotalCounter(m_MemoryData) = SumCounters(m_MemoryData.m_Heaps, MemoryHeaps)
    /\ TotalCounter(m_MemoryData) = SumCounters(m_MemoryData.m_Types, MemoryTypes)
    /\ \A heap \in MemoryHeaps : m_MemoryData.m_Heaps[heap] = CounterOf(TrackedOfHeap(heap))
    /\ \A type \in MemoryTypes : m_MemoryData.m_Types[type] = CounterOf(TrackedOfType(type))

\* A call of FreeMemory for a handle that is not tracked.
FreesUntracked(t) == pc[t] = "fm_none" \/ pc'[t] = "fm_none"

\* C37: after any sequence of AllocateMemory and FreeMemory calls the total
\* allocation count and size are the sums of the per-heap and of the
\* per-type ones and those of the tracked allocations, so that freeing a
\* tracked allocation takes back what its AllocateMemory added; FreeMemory
\* of a handle that is not tracked changes nothing.
C37_MemoryStatisticsConsistent ==
  /\ []MemoryConsistent
  /\ [][ \A t \in Threads : FreesUntracked(t) => UNCHANGED Memory ]_vars

\* Two allocations were made, of different types and sizes, one of them was
\* freed, and a FreeMemory of the freed handle is under way.
C37_Witness ==
  /\ calls.allocs = 2 /\ Cardinality(Tracked) = 1
  /\ m_MemoryData.m_TotalAllocationSize = 2 /\ m_MemoryData.m_Types[2].m_AllocationCount = 1
  /\ \E t \in Threads : pc[t] = "fm_none" /\ loc[t].arg \notin Tracked

(***************************************************************************)
(* The memory statistics of a published frame, over Workload 1.            *)
(***************************************************************************)
\* C38: the memory statistics of every published frame are a consistent
\* snapshot: the total allocation count and size are the sums of the
\* per-heap and of the per-type counts and sizes.
C38_PublishedMemoryConsistent ==
  \A k \in 1..Len(hist.published) :
    LET memory == hist.published[k].m_Memory
    IN  /\ TotalCounter(memory) = SumCounters(memory.m_Heaps, MemoryHeaps)
        /\ TotalCounter(memory) = SumCounters(memory.m_Types, MemoryTypes)

====
